---- MODULE Spec2Model ----
(***************************************************************************)
(* State-machine model of the request / authentication / retry core of     *)
(* ghost-mcp:                                                              *)
(*   - utils/retry.py     _should_retry, with_retry                        *)
(*   - client.py          GhostClient: scope, _make_request,               *)
(*                        _handle_response                                 *)
(*   - auth/content_auth.py ContentAuth                                    *)
(*   - auth/admin_auth.py AdminAuth (signed-token cache)                   *)
(*   - types/errors.py    the error taxonomy                               *)
(*                                                                         *)
(* Conventions.  A Python str is a sequence of one-character strings, so   *)
(* that formatting (f"HTTP {status}") and the substring test ("HTTP 5" in  *)
(* context) are computed, not assumed.  An Optional[T] is a sequence of    *)
(* length at most one: <<>> is None and <<v>> is the value v.  Wall-clock  *)
(* time is counted in ticks, TicksPerSec ticks to the second.              *)
(***************************************************************************)
EXTENDS Integers, Sequences, FiniteSets, TLC

VARIABLES
    \* ---- with_retry (utils/retry.py) ----
    pc,              \* position of the with_retry call
    config,          \* the RetryConfig of the call
    request_id,      \* the request_id argument of the call (Optional)
    attempt,         \* loop variable of `for attempt in range(max_retries + 1)`
    last_exception,  \* Optional error captured by the except clause
    delay,           \* delay (ms) handed to asyncio.sleep, 0 before the first sleep
    invocations,     \* number of times operation() has been invoked
    suspensions,     \* number of times asyncio.sleep has been awaited
    op_outcome,      \* Optional: what the last invocation of operation() produced
    decision,        \* Optional: what _should_retry answered for last_exception
    retry_result,    \* Optional: the value with_retry returned
    retry_raised,    \* Optional: the error with_retry raised
    all_retryable,   \* history: every invocation so far raised a retryable error
    \* ---- GhostClient._handle_response (client.py) ----
    response,        \* Optional: the upstream response being handled
    handled,         \* Optional: the outcome of _handle_response for it
    \* ---- AdminAuth (auth/admin_auth.py) ----
    now,             \* wall clock, in ticks
    api_key,         \* AdminAuth.api_key
    cached_token,    \* AdminAuth._cached_token (Optional)
    token_expires_at,\* AdminAuth._token_expires_at (Optional, in ticks)
    auth_out,        \* Optional: outcome of the get_auth_headers call just made
    mints,           \* history: number of tokens _generate_jwt_token has minted
    invalidated,     \* history: invalidate_cache ran and no call was made since
    \* ---- GhostClient (client.py) ----
    base_url,        \* GhostClient.base_url
    content_key,     \* ContentAuth.api_key (Optional)
    retry_config,    \* GhostClient.retry_config
    scope,           \* position of the `async with GhostClient()` block
    pool_closed,     \* the connection pool of self.client has been closed
    call,            \* Optional: the arguments of the _make_request call
    request_kwargs,  \* Optional: request_kwargs of the call (url, headers, params)
    http_calls,      \* number of self.client.request calls issued
    sent,            \* Optional: the last HTTP request issued
    transport,       \* Optional: what the last self.client.request produced
    all_timed_out,   \* history: every HTTP call so far ended in a timeout
    client_out,      \* Optional: the outcome of the _make_request call
    scope_out,       \* Optional: the outcome that left the async with block
    caller_params,   \* Optional: the caller's params mapping object
    all_status_retryable, \* history: every HTTP call so far was answered 5xx or 429
    \* ---- a tool handler (tools/content/posts.py, tools/admin/posts.py, tags.py) ----
    tool_call,       \* Optional: the tool invoked and its arguments
    tool_pc,         \* position of the handler
    tool_request,    \* Optional: the client call the handler makes
    tool_out,        \* Optional: the str the handler returned
    \* ---- concurrent callers of one AdminAuth (auth/admin_auth.py) ----
    rpc,             \* per caller: position in _get_jwt_token
    rtoken,          \* per caller: the local variable token (Optional)
    rout,            \* per caller: Optional outcome of its last call
    inv_pc,          \* position of the invalidate_cache call in progress
    minted_tokens,   \* history: the tokens _generate_jwt_token has produced
    \* ---- server start (server.py, config.py) ----
    mode,            \* config.ghost.mode
    content_api_key, \* config.ghost.content_api_key (Optional)
    admin_api_key,   \* config.ghost.admin_api_key (Optional)
    registered,      \* the tools registered on mcp
    server_pc        \* position of main()

retryVars == <<pc, config, request_id, attempt, last_exception, delay,
               invocations, suspensions, op_outcome, decision, retry_result, retry_raised,
               all_retryable>>
respVars  == <<response, handled>>
authVars  == <<now, api_key, cached_token, token_expires_at, auth_out, mints,
               invalidated>>
clientVars == <<base_url, content_key, retry_config, scope, pool_closed, call,
                request_kwargs, http_calls, sent, transport, all_timed_out,
                client_out, scope_out, caller_params, all_status_retryable>>
toolVars  == <<tool_call, tool_pc, tool_request, tool_out>>
raceVars  == <<rpc, rtoken, rout, inv_pc, minted_tokens>>
serverVars == <<mode, content_api_key, admin_api_key, registered, server_pc>>
extVars   == <<toolVars, raceVars, serverVars>>
vars      == <<retryVars, respVars, authVars, clientVars, extVars>>

---------------------------------------------------------------------------
\* Optional values

None == <<>>

Some(v) == <<v>>

IsNone(o) == o = <<>>

IsSome(o) == o # <<>>

Get(o) == o[1]

---------------------------------------------------------------------------
\* Strings

S_HTTP_429 == <<"H", "T", "T", "P", " ", "4", "2", "9">>

CTX_NON_JSON == <<"N", "o", "n", "-", "J", "S", "O", "N", " ", "e", "r", "r", "o", "r", " ", "r", "e", "s", "p", "o", "n", "s", "e">>

CTX_INVALID_JSON == <<"I", "n", "v", "a", "l", "i", "d", " ", "J", "S", "O", "N", " ", "r", "e", "s", "p", "o", "n", "s", "e", " ", "f", "r", "o", "m", " ", "G", "h", "o", "s", "t", " ", "A", "P", "I">>

MSG_RETRY_UNEXPECTED == <<"R", "e", "t", "r", "y", " ", "l", "o", "g", "i", "c", " ", "f", "a", "i", "l", "e", "d", " ", "u", "n", "e", "x", "p", "e", "c", "t", "e", "d", "l", "y">>

\* Python `sub in s` for two str values.
Contains(s, sub) ==
    \E i \in 1..(Len(s) - Len(sub) + 1) : SubSeq(s, i, i + Len(sub) - 1) = sub

DigitChar(d) ==
    CASE d = 0 -> "0" [] d = 1 -> "1" [] d = 2 -> "2" [] d = 3 -> "3"
      [] d = 4 -> "4" [] d = 5 -> "5" [] d = 6 -> "6" [] d = 7 -> "7"
      [] d = 8 -> "8" [] d = 9 -> "9"

RECURSIVE IntToStr(_)
\* Python str(n) for an int n >= 0.
IntToStr(n) ==
    IF n < 10 THEN <<DigitChar(n)>>
    ELSE IntToStr(n \div 10) \o <<DigitChar(n % 10)>>

\* f"HTTP {response.status_code}"
FormatHTTP(status) == <<"H", "T", "T", "P", " ">> \o IntToStr(status)

---------------------------------------------------------------------------
\* Error taxonomy (types/errors.py)

\* The classes of types/errors.py, and "Exception" for any exception that is
\* no GhostMCPError.
ErrorKinds ==
    {"NetworkError", "AuthenticationError", "GhostApiError", "ValidationError",
     "FileUploadError", "MCPProtocolError", "Exception"}

\* The code each subclass passes to GhostMCPError.__init__; GhostApiError
\* passes its caller's.
DefaultCode(kind) ==
    CASE kind = "NetworkError"        -> Some("NETWORK_ERROR")
      [] kind = "AuthenticationError" -> Some("AUTH_ERROR")
      [] kind = "ValidationError"     -> Some("VALIDATION_ERROR")
      [] kind = "FileUploadError"     -> Some("FILE_UPLOAD_ERROR")
      [] kind = "MCPProtocolError"    -> Some("MCP_ERROR")
      [] OTHER                        -> None

\* The ErrorCategory each subclass passes to GhostMCPError.__init__; an
\* exception that is no GhostMCPError has none.
Category(kind) ==
    CASE kind = "NetworkError"        -> Some("NETWORK")
      [] kind = "AuthenticationError" -> Some("AUTHENTICATION")
      [] kind = "GhostApiError"       -> Some("GHOST_API")
      [] kind = "ValidationError"     -> Some("VALIDATION")
      [] kind = "FileUploadError"     -> Some("FILE_UPLOAD")
      [] kind = "MCPProtocolError"    -> Some("MCP_PROTOCOL")
      [] OTHER                        -> None

\* An error object.  id stands for the fresh uuid4 of GhostMCPError.__init__
\* (and for object identity): the caller passes a serial no other live error
\* has.
MkError(kind, message, code, context, rid, id) ==
    [kind |-> kind, message |-> message, category |-> Category(kind),
     code |-> code, context |-> context, request_id |-> rid, id |-> id]

\* The outcome of a call: the value it returned or the error it raised.
Returned(v) == [ok |-> TRUE, value |-> Some(v), error |-> None]

Raised(e) == [ok |-> FALSE, value |-> None, error |-> Some(e)]

---------------------------------------------------------------------------
\* Retry classifier (utils/retry.py)

\* A classifier that forgets the context test of GhostApiError.
ShouldRetryNoContextTest(exception) ==
    exception.kind \notin {"AuthenticationError", "ValidationError"}

\* _should_retry(exception): the isinstance chain, then the substring tests
\* on a truthy context.
ShouldRetry(exception) ==
    IF exception.kind = "NetworkError" THEN TRUE
    ELSE IF exception.kind = "AuthenticationError" THEN FALSE
    ELSE IF exception.kind = "ValidationError" THEN FALSE
    ELSE IF exception.kind = "GhostApiError" THEN
        IF IsSome(exception.context) /\ Get(exception.context) # <<>>
              /\ Contains(Get(exception.context), <<"H", "T", "T", "P", " ", "5">>) THEN TRUE
        ELSE IF IsSome(exception.context) /\ Get(exception.context) # <<>>
              /\ Contains(Get(exception.context), S_HTTP_429) THEN TRUE
        ELSE FALSE
    ELSE TRUE

---------------------------------------------------------------------------
\* GhostClient._handle_response (client.py)

T_BAD_GATEWAY == <<"B", "a", "d", " ", "G", "a", "t", "e", "w", "a", "y">>

M_BUSY == <<"B", "u", "s", "y">>

MaxErrors == 2

RECURSIVE SeqsUpTo(_, _)
SeqsUpTo(S, n) ==
    IF n = 0 THEN {<<>>}
    ELSE LET shorter == SeqsUpTo(S, n - 1)
         IN  shorter \cup {Append(q, x) : q \in shorter, x \in S}

\* Upstream responses.  A body is text that is not JSON, JSON of another
\* shape than an error body, or a JSON object with an "errors" array; text
\* is response.text.  valid says whether an entry of the array validates as
\* a GhostError (types/ghost.py: id, message and type are required).
Responses ==
    {[status_code |-> st, body |-> b] :
        st \in {200, 201, 399, 400, 401, 404, 422, 429, 499, 500, 502, 503,
                599, 600},
        b \in {[kind |-> "non_json", errors |-> <<>>, text |-> t] :
                  t \in {<<>>, T_BAD_GATEWAY}}
              \cup {[kind |-> "json_other", errors |-> <<>>,
                     text |-> <<"{", "}">>]}
              \cup {[kind |-> "error_list", errors |-> es,
                     text |-> <<"{", "e", "r", "r", "o", "r", "s", "}">>] :
                       es \in SeqsUpTo(
                           {[valid |-> TRUE, message |-> <<"N", "o", "t", " ", "f", "o", "u", "n", "d">>,
                             code |-> Some("NOT_FOUND")],
                            [valid |-> TRUE, message |-> M_BUSY, code |-> None],
                            [valid |-> FALSE, message |-> M_BUSY,
                             code |-> Some("BUSY")]},
                           MaxErrors)}}

\* response.json(): the decoded body, None when decoding raises.
ResponseJson(resp) ==
    IF resp.body.kind = "non_json" THEN None ELSE Some(resp.body)

\* GhostErrorResponse(**error_data): the validated error list, None when the
\* construction raises (not a mapping, no "errors" list, an entry that does
\* not validate).
ParseErrorResponse(data) ==
    IF data.kind = "error_list"
          /\ \A i \in 1..Len(data.errors) : data.errors[i].valid
    THEN Some(data.errors) ELSE None

\* The context of the fallback error of lines 198-202.
FallbackContext(resp) == CTX_NON_JSON

\* The message of the fallback error: f"HTTP {status_code}: {text}".
FallbackMessage(resp) ==
    FormatHTTP(resp.status_code) \o <<":", " ">> \o resp.body.text

\* The context of the structured error of lines 186-191.
StructuredContext(resp) == FormatHTTP(resp.status_code)

\* _handle_response(response, request_id): the value returned or the error
\* raised; fresh is the id of the error it constructs.
HandleResponseOutcome(resp, rid, fresh) ==
    IF resp.status_code < 400 THEN
        IF IsSome(ResponseJson(resp)) THEN Returned(Get(ResponseJson(resp)))
        ELSE Raised(MkError("GhostApiError",
                            <<"F", "a", "i", "l", "e", "d", " ", "t", "o", " ", "p", "a", "r", "s", "e", " ", "r", "e", "s", "p", "o", "n", "s", "e", " ", "J", "S", "O", "N", ":", " ">>,
                            None,
                            Some(CTX_INVALID_JSON), rid, fresh))
    ELSE
        LET data   == ResponseJson(resp)
            parsed == IF IsSome(data) THEN ParseErrorResponse(Get(data)) ELSE None
        IN  IF IsSome(parsed) THEN
                LET errors == Get(parsed)
                    error_message ==
                        IF errors # <<>> THEN errors[1].message ELSE <<"U", "n", "k", "n", "o", "w", "n", " ", "G", "h", "o", "s", "t", " ", "A", "P", "I", " ", "e", "r", "r", "o", "r">>
                    error_code == IF errors # <<>> THEN errors[1].code ELSE None
                IN  Raised(MkError("GhostApiError", error_message, error_code,
                                   Some(StructuredContext(resp)), rid,
                                   fresh))
            ELSE Raised(MkError("GhostApiError", FallbackMessage(resp), None,
                                Some(FallbackContext(resp)), rid, fresh))

\* An Optional[str] request_id argument.
OptRequestIds == {None, Some("req-1")}

\* One call of _handle_response on an upstream response.
HandleResponse(resp, rid) ==
    /\ response' = Some(resp)
    /\ handled' = Some(HandleResponseOutcome(resp, Some(rid), 1))
    /\ UNCHANGED <<retryVars, authVars, clientVars, extVars>>

---------------------------------------------------------------------------
\* RetryConfig and the backoff loop (utils/retry.py)

MaxRetries == 3

NegRetries == 2

DEFAULT_MAX_RETRIES == 3

DEFAULT_BASE_DELAY_MS == 1000

DEFAULT_MAX_DELAY_MS == 10000

DEFAULT_EXPONENTIAL_BASE == 2

\* RetryConfig(): the field defaults, delays in milliseconds.
DefaultRetryConfig ==
    [max_retries |-> DEFAULT_MAX_RETRIES, base_delay |-> DEFAULT_BASE_DELAY_MS,
     max_delay |-> DEFAULT_MAX_DELAY_MS,
     exponential_base |-> DEFAULT_EXPONENTIAL_BASE, jitter |-> TRUE]

\* Values of random.random(), in thousandths; it returns a float in [0, 1).
RandomSamples == {0, 500, 999}

RECURSIVE Pow(_, _)
Pow(b, n) == IF n = 0 THEN 1 ELSE b * Pow(b, n - 1)

Min(a, b) == IF a <= b THEN a ELSE b

\* A delay that is never capped at max_delay.
BackoffDelayNoCap(cfg, att, r) ==
    LET d == cfg.base_delay * Pow(cfg.exponential_base, att)
    IN  IF cfg.jitter THEN (d * (500 + (r * 500) \div 1000)) \div 1000 ELSE d

\* The delay before the next attempt, in ms; r is the value of
\* random.random() in thousandths.
BackoffDelay(cfg, att, r) ==
    LET d == Min(cfg.base_delay * Pow(cfg.exponential_base, att), cfg.max_delay)
    IN  IF cfg.jitter THEN (d * (500 + (r * 500) \div 1000)) \div 1000 ELSE d

\* `attempt in range(n)`
InRange(i, n) == 0 <= i /\ i < n

IsFinalAttemptOffByOne(att, cfg) == att = cfg.max_retries - 1

\* A loop without the final-attempt test: it sleeps after every failure.
IsFinalAttemptNever(att, cfg) == FALSE

\* `if attempt == config.max_retries`
IsFinalAttempt(att, cfg) == att = cfg.max_retries

\* A function that falls off its end when no error was captured.
RaiseAfterLoopNoFallback(last, rid, fresh) == last

\* The statements after the loop: re-raise the captured error, or raise the
\* NetworkError of the defensive path.  fresh is an id for a new error.
RaiseAfterLoop(last, rid, fresh) ==
    IF IsSome(last) THEN last
    ELSE Some(MkError("NetworkError", MSG_RETRY_UNEXPECTED,
                      DefaultCode("NetworkError"), None, rid, fresh))

\* with_retry(operation, config, request_id) up to its first await: an empty
\* range skips the loop.
WithRetryCall(cfg, rid) ==
    /\ pc = "idle"
    /\ config' = cfg
    /\ request_id' = rid
    /\ attempt' = 0
    /\ last_exception' = None
    /\ IF InRange(0, cfg.max_retries + 1)
       THEN /\ pc' = "operation"
            /\ retry_raised' = None
       ELSE /\ pc' = "raised"
            /\ retry_raised' = RaiseAfterLoop(None, rid, invocations + 1)
    /\ UNCHANGED <<delay, invocations, suspensions, op_outcome, decision,
                   retry_result, all_retryable>>

\* A call of with_retry on its own.
Call(cfg, rid) ==
    /\ WithRetryCall(cfg, rid)
    /\ UNCHANGED <<respVars, authVars, clientVars, extVars>>

\* `return await operation()` when the operation returns v.
WithRetryReturns(v) ==
    /\ pc = "operation"
    /\ invocations' = invocations + 1
    /\ op_outcome' = Some(Returned(v))
    /\ retry_result' = Some(v)
    /\ all_retryable' = FALSE
    /\ pc' = "returned"
    /\ UNCHANGED <<config, request_id, attempt, last_exception, delay, suspensions,
                   decision, retry_raised>>

\* A loop that keeps the value instead of returning it.
OperationReturnsNoReturn(v) ==
    /\ pc = "operation"
    /\ invocations' = invocations + 1
    /\ op_outcome' = Some(Returned(v))
    /\ retry_result' = Some(v)
    /\ all_retryable' = FALSE
    /\ attempt' = attempt + 1
    /\ pc' = IF InRange(attempt + 1, config.max_retries + 1)
             THEN "operation" ELSE "returned"
    /\ UNCHANGED <<config, request_id, last_exception, delay, suspensions, decision,
                   retry_raised>>
    /\ UNCHANGED <<respVars, authVars, clientVars, extVars>>

\* An operation that returns v.
OperationReturns(v) ==
    /\ WithRetryReturns(v)
    /\ UNCHANGED <<respVars, authVars, clientVars, extVars>>

\* The except clause, when the operation raises the error e: capture,
\* classify, break on a non-retryable error or on the final attempt, else
\* compute the delay and await asyncio.sleep.
WithRetryRaises(e) ==
    /\ pc = "operation"
    /\ invocations' = invocations + 1
    /\ op_outcome' = Some(Raised(e))
    /\ last_exception' = Some(e)
    /\ decision' = Some(ShouldRetry(e))
    /\ all_retryable' = (all_retryable /\ ShouldRetry(e))
    /\ IF ~ShouldRetry(e) \/ IsFinalAttempt(attempt, config)
       THEN /\ pc' = "raised"
            /\ retry_raised' = RaiseAfterLoop(Some(e), request_id, invocations + 2)
            /\ UNCHANGED <<delay, suspensions>>
       ELSE /\ \E r \in RandomSamples :
                  delay' = BackoffDelay(config, attempt, r)
            /\ suspensions' = suspensions + 1
            /\ pc' = "sleep"
            /\ UNCHANGED retry_raised
    /\ UNCHANGED <<config, request_id, attempt, retry_result>>

\* An except clause that never consults the classifier.
OperationRaisesIgnoreClassifier(kind, context) ==
    LET e == MkError(kind, <<>>, DefaultCode(kind), context, None, invocations + 1)
    IN  /\ pc = "operation"
        /\ invocations' = invocations + 1
        /\ op_outcome' = Some(Raised(e))
        /\ last_exception' = Some(e)
        /\ decision' = Some(ShouldRetry(e))
        /\ all_retryable' = (all_retryable /\ ShouldRetry(e))
        /\ IF IsFinalAttempt(attempt, config)
           THEN /\ pc' = "raised"
                /\ retry_raised' = RaiseAfterLoop(Some(e), request_id, invocations + 2)
                /\ UNCHANGED <<delay, suspensions>>
           ELSE /\ \E r \in RandomSamples :
                      delay' = BackoffDelay(config, attempt, r)
                /\ suspensions' = suspensions + 1
                /\ pc' = "sleep"
                /\ UNCHANGED retry_raised
        /\ UNCHANGED <<config, request_id, attempt, retry_result>>
        /\ UNCHANGED <<respVars, authVars, clientVars, extVars>>

\* An operation that raises an error of class kind with the given context.
OperationRaises(kind, context) ==
    /\ WithRetryRaises(MkError(kind, <<>>, DefaultCode(kind), context, None,
                               invocations + 1))
    /\ UNCHANGED <<respVars, authVars, clientVars, extVars>>

\* asyncio.sleep(delay) completes and the for statement takes the next
\* attempt, or leaves the loop when the range is exhausted.
WithRetryWake ==
    /\ pc = "sleep"
    /\ attempt' = attempt + 1
    /\ IF InRange(attempt + 1, config.max_retries + 1)
       THEN /\ pc' = "operation"
            /\ UNCHANGED retry_raised
       ELSE /\ pc' = "raised"
            /\ retry_raised' = RaiseAfterLoop(last_exception, request_id, invocations + 1)
    /\ UNCHANGED <<config, request_id, last_exception, delay, invocations, suspensions,
                   op_outcome, decision, retry_result, all_retryable>>

\* A loop that does not advance its attempt counter.
WakeNoIncrement ==
    /\ pc = "sleep"
    /\ pc' = "operation"
    /\ UNCHANGED <<config, request_id, attempt, last_exception, delay, invocations,
                   suspensions, op_outcome, decision, retry_result,
                   retry_raised, all_retryable>>
    /\ UNCHANGED <<respVars, authVars, clientVars, extVars>>

\* The sleep of a call of with_retry on its own completes.
Wake ==
    /\ WithRetryWake
    /\ UNCHANGED <<respVars, authVars, clientVars, extVars>>

---------------------------------------------------------------------------
\* AdminAuth (auth/admin_auth.py)

TicksPerSec == 2

MaxNow == 600

JWT_LIFETIME_S == 300

CACHE_LIFETIME_MIN == 5

SAFETY_MARGIN_S == 30

MaxLatency == 1

MaxMints == 3

MSG_NOT_CONFIGURED == <<"A", "d", "m", "i", "n", " ", "A", "P", "I", " ", "k", "e", "y", " ", "n", "o", "t", " ", "c", "o", "n", "f", "i", "g", "u", "r", "e", "d">>

CTX_NOT_CONFIGURED == <<"A", "d", "m", "i", "n", " ", "A", "P", "I", " ", "r", "e", "q", "u", "i", "r", "e", "s", " ", "a", "n", " ", "A", "P", "I", " ", "k", "e", "y", " ", "f", "o", "r", " ", "J", "W", "T", " ", "g", "e", "n", "e", "r", "a", "t", "i", "o", "n">>

MSG_GENERATE_FAILED == <<"F", "a", "i", "l", "e", "d", " ", "t", "o", " ", "g", "e", "n", "e", "r", "a", "t", "e", " ", "J", "W", "T", " ", "t", "o", "k", "e", "n", ":", " ">>

CTX_GENERATE_FAILED == <<"J", "W", "T", " ", "t", "o", "k", "e", "n", " ", "g", "e", "n", "e", "r", "a", "t", "i", "o", "n", " ", "f", "a", "i", "l", "e", "d">>

\* Values of AdminAuth.api_key: absent, empty, without separator, with a
\* secret that is not hex, with a secret of odd length, and two usable keys.
AdminKeys ==
    {None, Some(<<>>), Some(<<"a", "b", "c">>),
     Some(<<"a", "b", ":", "z", "z">>), Some(<<"a", "b", ":", "c">>),
     Some(<<"a", "b", ":", "c", "d">>),
     Some(<<"1", "2", ":", "3", "4", ":", "5", "6">>)}

\* `":" in s`
HasSeparator(s) == \E i \in 1..Len(s) : s[i] = ":"

\* Index of the first ":" of s.
FirstSeparator(s) ==
    CHOOSE i \in 1..Len(s) : s[i] = ":" /\ \A j \in 1..(i - 1) : s[j] # ":"

\* The secret of s.split(":", 1) for an s that has a separator; the id is
\* what precedes the separator.
KeySecret(s) == SubSeq(s, FirstSeparator(s) + 1, Len(s))

\* bytes.fromhex(secret) succeeds: pairs of hex digits.
IsHex(secret) ==
    /\ Len(secret) % 2 = 0
    /\ \A i \in 1..Len(secret) : 
          secret[i] \in {"0", "1", "2", "3", "4", "5", "6", "7", "8", "9",
                         "a", "b", "c", "d", "e", "f",
                         "A", "B", "C", "D", "E", "F"}

\* not self.api_key: None or the empty string.
KeyAbsent(key) == IsNone(key) \/ Get(key) = <<>>

\* is_configured()
IsConfigured(key) == ~KeyAbsent(key) /\ HasSeparator(Get(key))

\* int(time.time()) at tick t.
UnixTime(t) == t \div TicksPerSec

\* timedelta(seconds=n) in ticks.
Seconds(n) == n * TicksPerSec

\* jwt.encode(payload, bytes.fromhex(secret), "HS256", headers) at tick t.
\* The token string is a function of the header, the payload and the secret,
\* so the token is the record of them.
EncodeToken(key, t) ==
    [kid |-> SubSeq(key, 1, FirstSeparator(key) - 1), secret |-> KeySecret(key), alg |-> "HS256",
     iat |-> UnixTime(t), exp |-> UnixTime(t) + JWT_LIFETIME_S,
     aud |-> <<"/", "a", "d", "m", "i", "n", "/">>]

\* A mint that never decodes the secret.
CanMintNoDecode(key) == HasSeparator(key)

\* _generate_jwt_token can mint: the key splits and its secret decodes.
CanMint(key) == HasSeparator(key) /\ IsHex(KeySecret(key))

\* A cache test without the safety margin.
CacheValidNoMargin(token, expires_at, t) ==
    /\ IsSome(token)
    /\ IsSome(expires_at)
    /\ t < Get(expires_at)

\* The test of lines 43-44 at tick t: a cached token and expiry, and
\* datetime.now() < expires_at - timedelta(seconds=30).
CacheValid(token, expires_at, t) ==
    /\ IsSome(token)
    /\ IsSome(expires_at)
    /\ t < Get(expires_at) - Seconds(SAFETY_MARGIN_S)

\* What get_auth_headers hands out: the token of the Authorization header,
\* whether this call minted it, and the instant of the hand-out.
HandedOut(token, minted, at) ==
    [ok |-> TRUE, token |-> Some(token), minted |-> minted, at |-> at,
     error |-> None]

AuthFailed(message, context, rid, at) ==
    [ok |-> FALSE, token |-> None, minted |-> FALSE, at |-> at,
     error |-> Some(MkError("AuthenticationError", message,
                            DefaultCode("AuthenticationError"), Some(context),
                            rid, 1))]

\* A _get_jwt_token that stores the expiry before it calls
\* _generate_jwt_token, so that a failed mint leaves an expiry behind.
GetJwtTokenExpiryFirst(rid, d1, d2) ==
    /\ now + d1 + d2 <= Seconds(MaxNow)
    /\ invalidated' = FALSE
    /\ IF KeyAbsent(api_key) THEN
          /\ auth_out' = Some(AuthFailed(MSG_NOT_CONFIGURED, CTX_NOT_CONFIGURED,
                                         rid, now))
          /\ UNCHANGED <<now, api_key, cached_token, token_expires_at, mints>>
       ELSE IF CacheValid(cached_token, token_expires_at, now) THEN
          /\ auth_out' = Some(HandedOut(Get(cached_token), FALSE, now))
          /\ UNCHANGED <<now, api_key, cached_token, token_expires_at, mints>>
       ELSE IF ~CanMint(Get(api_key)) THEN
          /\ auth_out' = Some(AuthFailed(MSG_GENERATE_FAILED, CTX_GENERATE_FAILED,
                                         rid, now + d1))
          /\ now' = now + d1
          /\ token_expires_at' = Some(now + Seconds(60 * CACHE_LIFETIME_MIN))
          /\ UNCHANGED <<api_key, cached_token, mints>>
       ELSE
          /\ mints < MaxMints
          /\ mints' = mints + 1
          /\ cached_token' = Some(EncodeToken(Get(api_key), now + d1))
          /\ token_expires_at' =
                Some(now + d1 + d2 + Seconds(60 * CACHE_LIFETIME_MIN))
          /\ now' = now + d1 + d2
          /\ auth_out' = Some(HandedOut(EncodeToken(Get(api_key), now + d1), TRUE,
                                        now + d1 + d2))
          /\ UNCHANGED api_key

\* _get_jwt_token(request_id).  The clock is read at the cache test (now), d1
\* ticks later by _generate_jwt_token (time.time()), and d2 ticks after that
\* when the expiry is stored (datetime.now()).
GetJwtToken(rid, d1, d2) ==
    /\ now + d1 + d2 <= Seconds(MaxNow)
    /\ invalidated' = FALSE
    /\ IF KeyAbsent(api_key) THEN
          /\ auth_out' = Some(AuthFailed(MSG_NOT_CONFIGURED, CTX_NOT_CONFIGURED,
                                         rid, now))
          /\ UNCHANGED <<now, api_key, cached_token, token_expires_at, mints>>
       ELSE IF CacheValid(cached_token, token_expires_at, now) THEN
          /\ auth_out' = Some(HandedOut(Get(cached_token), FALSE, now))
          /\ UNCHANGED <<now, api_key, cached_token, token_expires_at, mints>>
       ELSE IF ~CanMint(Get(api_key)) THEN
          /\ auth_out' = Some(AuthFailed(MSG_GENERATE_FAILED, CTX_GENERATE_FAILED,
                                         rid, now + d1))
          /\ now' = now + d1
          /\ UNCHANGED <<api_key, cached_token, token_expires_at, mints>>
       ELSE
          /\ mints < MaxMints
          /\ mints' = mints + 1
          /\ cached_token' = Some(EncodeToken(Get(api_key), now + d1))
          /\ token_expires_at' =
                Some(now + d1 + d2 + Seconds(60 * CACHE_LIFETIME_MIN))
          /\ now' = now + d1 + d2
          /\ auth_out' = Some(HandedOut(EncodeToken(Get(api_key), now + d1), TRUE,
                                        now + d1 + d2))
          /\ UNCHANGED api_key

\* get_auth_headers(request_id), called on the provider directly.
GetAuthHeaders(rid, d1, d2) ==
    /\ GetJwtToken(rid, d1, d2)
    /\ UNCHANGED <<retryVars, respVars, clientVars, extVars>>

\* An invalidation that only drops a token the cache test would reject.
InvalidateCacheOnlyStale ==
    /\ IF CacheValid(cached_token, token_expires_at, now)
       THEN UNCHANGED <<cached_token, token_expires_at>>
       ELSE cached_token' = None /\ token_expires_at' = None
    /\ auth_out' = None
    /\ invalidated' = TRUE
    /\ UNCHANGED <<now, api_key, mints>>
    /\ UNCHANGED <<retryVars, respVars, clientVars, extVars>>

\* invalidate_cache()
InvalidateCache ==
    /\ cached_token' = None
    /\ token_expires_at' = None
    /\ auth_out' = None
    /\ invalidated' = TRUE
    /\ UNCHANGED <<now, api_key, mints>>
    /\ UNCHANGED <<retryVars, respVars, clientVars, extVars>>

\* The clock advances by d ticks; the outcome of the last call is consumed.
Tick(d) ==
    /\ now + d <= Seconds(MaxNow)
    /\ now' = now + d
    /\ auth_out' = None
    /\ UNCHANGED <<api_key, cached_token, token_expires_at, mints, invalidated>>
    /\ UNCHANGED <<retryVars, respVars, clientVars, extVars>>

---------------------------------------------------------------------------
\* ContentAuth (auth/content_auth.py) and GhostClient (client.py)

MaxClientRetries == 2

DEFAULT_TIMEOUT_S == 30

ORIGIN == <<"h", "t", "t", "p", ":", "/", "/", "l", "o", "c", "a", "l", "h", "o", "s", "t", ":", "2", "3", "6", "8">>

SEG_GHOST == <<"g", "h", "o", "s", "t">>

SEG_API == <<"a", "p", "i">>

SEG_POSTS == <<"p", "o", "s", "t", "s">>

SEG_ID == <<"5", "d", "d", "c">>

SEG_DOTDOT == <<".", ".">>

\* The api_type arguments: the two surfaces and a value that is neither.
API_CONTENT == <<"c", "o", "n", "t", "e", "n", "t">>

API_ADMIN == <<"a", "d", "m", "i", "n">>

MSG_CONTENT_NOT_CONFIGURED == <<"C", "o", "n", "t", "e", "n", "t", " ", "A", "P", "I", " ", "k", "e", "y", " ", "n", "o", "t", " ", "c", "o", "n", "f", "i", "g", "u", "r", "e", "d">>

MSG_ADMIN_NOT_CONFIGURED == <<"A", "d", "m", "i", "n", " ", "A", "P", "I", " ", "k", "e", "y", " ", "n", "o", "t", " ", "c", "o", "n", "f", "i", "g", "u", "r", "e", "d">>

MSG_TIMEOUT == <<"R", "e", "q", "u", "e", "s", "t", " ", "t", "i", "m", "e", "o", "u", "t", ":", " ">>

MSG_CONNECT == <<"C", "o", "n", "n", "e", "c", "t", "i", "o", "n", " ", "e", "r", "r", "o", "r", ":", " ">>

MSG_HTTP_ERROR == <<"H", "T", "T", "P", " ", "e", "r", "r", "o", "r", ":", " ">>

CTX_CONNECT == <<"F", "a", "i", "l", "e", "d", " ", "t", "o", " ", "c", "o", "n", "n", "e", "c", "t", " ", "t", "o", " ">>

CTX_REQUEST_TO == <<"R", "e", "q", "u", "e", "s", "t", " ", "t", "o", " ">>

CTX_FAILED == <<" ", "f", "a", "i", "l", "e", "d">>

RECURSIVE RemoveDotSegments(_, _)
\* The dot-segment removal of urljoin: "." is dropped, ".." drops the segment
\* before it, and nothing is dropped above the root.
RemoveDotSegments(out, segs) ==
    IF segs = <<>> THEN out
    ELSE IF Head(segs) = <<".">> THEN RemoveDotSegments(out, Tail(segs))
    ELSE IF Head(segs) = SEG_DOTDOT THEN
        RemoveDotSegments(IF out = <<>> THEN out
                          ELSE SubSeq(out, 1, Len(out) - 1), Tail(segs))
    ELSE RemoveDotSegments(Append(out, Head(segs)), Tail(segs))

\* _build_url(endpoint, api_type): urllib.parse.urljoin(base, rel) for a
\* base that ends with "/" and the relative path
\* f"ghost/api/{api_type}/{endpoint}".
BuildUrl(base, endpoint, api_type) ==
    [origin |-> base.origin,
     path |-> RemoveDotSegments(<<>>, base.path
                                        \o <<SEG_GHOST, SEG_API, api_type>>
                                        \o endpoint)]

RECURSIVE PathStr(_)
PathStr(segs) ==
    IF segs = <<>> THEN <<>> ELSE Head(segs) \o <<"/">> \o PathStr(Tail(segs))

\* str(url)
UrlStr(url) == url.origin \o <<"/">> \o PathStr(url.path)

\* Values of ContentAuth.api_key.
ContentKeys == {None, Some("content-key-1")}

\* ContentAuth.is_configured()
ContentIsConfigured(k) == IsSome(k) /\ Get(k) # ""

\* ContentAuth.get_auth_params(request_id), for a configured key.
GetAuthParams(k) == [key |-> Get(k)]

EmptyDict == <<>>

\* dict.update: p updated with the items of q.
Update(p, q) ==
    [k \in (DOMAIN p) \cup (DOMAIN q) |-> IF k \in DOMAIN q THEN q[k] ELSE p[k]]

\* headers = {"User-Agent": "Ghost-MCP/0.1.0"}
DefaultHeaders == [UserAgent |-> <<"Ghost-MCP/0.1.0">>]

\* {"Authorization": f"Ghost {token}"}
AuthHeaders(token) == [Authorization |-> <<"Ghost", token>>]

\* str(uuid.uuid4()) of line 84.
GENERATED_REQUEST_ID == "req-2"

\* What self.client.request produces: a response, or an exception:
\* httpx.TimeoutException, httpx.ConnectError, another httpx.HTTPError, or
\* an exception outside that hierarchy (httpx.InvalidURL, the RuntimeError
\* of a closed client, a TypeError of the json encoder).
TransportOutcomes ==
    {[kind |-> "response", response |-> Some(r)] :
        r \in {x \in Responses :
                  /\ x.status_code \in {200, 404, 429, 503}
                  /\ \/ x.body.kind = "json_other"
                     \/ (x.body.kind = "non_json" /\ x.body.text = T_BAD_GATEWAY)
                     \/ (x.body.kind = "error_list" /\ Len(x.body.errors) = 1
                           /\ x.body.errors[1].valid
                           /\ IsSome(x.body.errors[1].code))}}
      \cup {[kind |-> k, response |-> None] :
               k \in {"TimeoutException", "ConnectError", "HTTPError", "Exception"}}

\* The context of the NetworkError of a timeout: f"Timeout after {timeout}s".
TimeoutContext == <<"T", "i", "m", "e", "o", "u", "t", " ", "a", "f", "t", "e", "r", " ">> \o IntToStr(DEFAULT_TIMEOUT_S) \o <<"s">>

\* An exception that is no GhostMCPError, as the library raised it.
RawException(kind, fresh) == MkError(kind, <<>>, None, None, None, fresh)

\* A _request without the except clause for httpx.TimeoutException.
RequestOutcomeRawTimeout(t, url, rid, fresh) ==
    CASE t.kind = "response" ->
            HandleResponseOutcome(Get(t.response), Some(rid), fresh)
      [] t.kind = "ConnectError" ->
            Raised(MkError("NetworkError", MSG_CONNECT, DefaultCode("NetworkError"),
                           Some(CTX_CONNECT \o UrlStr(url)), Some(rid), fresh))
      [] t.kind = "HTTPError" ->
            Raised(MkError("NetworkError", MSG_HTTP_ERROR, DefaultCode("NetworkError"),
                           Some(CTX_REQUEST_TO \o UrlStr(url) \o CTX_FAILED),
                           Some(rid), fresh))
      [] OTHER -> Raised(RawException("Exception", fresh))

\* A _request whose NetworkError of a timeout is built without request_id.
RequestOutcomeNoCorrelation(t, url, rid, fresh) ==
    CASE t.kind = "response" ->
            HandleResponseOutcome(Get(t.response), Some(rid), fresh)
      [] t.kind = "TimeoutException" ->
            Raised(MkError("NetworkError", MSG_TIMEOUT, DefaultCode("NetworkError"),
                           Some(TimeoutContext), None, fresh))
      [] t.kind = "ConnectError" ->
            Raised(MkError("NetworkError", MSG_CONNECT, DefaultCode("NetworkError"),
                           Some(CTX_CONNECT \o UrlStr(url)), Some(rid), fresh))
      [] t.kind = "HTTPError" ->
            Raised(MkError("NetworkError", MSG_HTTP_ERROR, DefaultCode("NetworkError"),
                           Some(CTX_REQUEST_TO \o UrlStr(url) \o CTX_FAILED),
                           Some(rid), fresh))
      [] OTHER -> Raised(RawException("Exception", fresh))

\* One invocation of _request, given what self.client.request produced: a
\* response goes to _handle_response; the three except clauses map the
\* httpx.HTTPError hierarchy to NetworkError; any other exception
\* propagates as it is.
RequestOutcome(t, url, rid, fresh) ==
    CASE t.kind = "response" ->
            HandleResponseOutcome(Get(t.response), Some(rid), fresh)
      [] t.kind = "TimeoutException" ->
            Raised(MkError("NetworkError", MSG_TIMEOUT, DefaultCode("NetworkError"),
                           Some(TimeoutContext), Some(rid), fresh))
      [] t.kind = "ConnectError" ->
            Raised(MkError("NetworkError", MSG_CONNECT, DefaultCode("NetworkError"),
                           Some(CTX_CONNECT \o UrlStr(url)), Some(rid), fresh))
      [] t.kind = "HTTPError" ->
            Raised(MkError("NetworkError", MSG_HTTP_ERROR, DefaultCode("NetworkError"),
                           Some(CTX_REQUEST_TO \o UrlStr(url) \o CTX_FAILED),
                           Some(rid), fresh))
      [] OTHER -> Raised(RawException("Exception", fresh))

\* `return await with_retry(...)`: the outcome of _make_request once
\* with_retry has ended at position p, None while it runs.
OutcomeOfRetry(p, result, raised) ==
    IF p = "returned" THEN Some(Returned(Get(result)))
    ELSE IF p = "raised" THEN Some(Raised(Get(raised)))
    ELSE None

\* `async with GhostClient() as client`: __aenter__ returns self.
EnterScope ==
    /\ scope = "outside"
    /\ scope' = "inside"
    /\ UNCHANGED <<base_url, content_key, retry_config, pool_closed, call,
                   request_kwargs, http_calls, sent, transport, all_timed_out,
                   client_out, scope_out, caller_params,
                   all_status_retryable>>
    /\ UNCHANGED <<retryVars, respVars, authVars, extVars>>

\* A raise statement of _make_request before with_retry is called.
RaiseBeforeRetry(e) ==
    /\ client_out' = Some(Raised(e))
    /\ request_kwargs' = None
    /\ UNCHANGED retryVars

\* request_kwargs is prepared and with_retry(_request, self.retry_config,
\* request_id) is called.
StartRequest(url, headers, params, rid) ==
    /\ request_kwargs' = Some([url |-> url, headers |-> headers, params |-> params])
    /\ WithRetryCall(retry_config, Some(rid))
    /\ client_out' = OutcomeOfRetry(pc', retry_result', retry_raised')

\* A _make_request that checks and attaches no credentials.
MakeRequestUnauthenticated(api_type, endpoint, params, rid_arg) ==
    LET rid == IF IsNone(rid_arg) THEN GENERATED_REQUEST_ID ELSE Get(rid_arg)
    IN  /\ scope = "inside"
        /\ IsNone(call)
        /\ call' = Some([api_type |-> api_type, endpoint |-> endpoint,
                         params |-> params, rid_arg |-> rid_arg,
                         request_id |-> rid])
        /\ StartRequest(BuildUrl(base_url, endpoint, api_type), DefaultHeaders,
                        params, rid)
        /\ caller_params' = params
        /\ UNCHANGED authVars
        /\ UNCHANGED <<base_url, content_key, retry_config, scope, pool_closed,
                       http_calls, sent, transport, all_timed_out, scope_out,
                       all_status_retryable>>
        /\ UNCHANGED <<respVars, extVars>>

\* A _make_request whose first branch takes every surface but "admin": the
\* Content key is required and attached for an unknown api_type too.
MakeRequestContentByDefault(api_type, endpoint, params, rid_arg) ==
    LET rid == IF IsNone(rid_arg) THEN GENERATED_REQUEST_ID ELSE Get(rid_arg)
        url == BuildUrl(base_url, endpoint, api_type)
    IN  /\ scope = "inside"
        /\ IsNone(call)
        /\ call' = Some([api_type |-> api_type, endpoint |-> endpoint,
                         params |-> params, rid_arg |-> rid_arg,
                         request_id |-> rid])
        /\ IF api_type # API_ADMIN THEN
              /\ IF ~ContentIsConfigured(content_key)
                 THEN RaiseBeforeRetry(
                          MkError("AuthenticationError", MSG_CONTENT_NOT_CONFIGURED,
                                  DefaultCode("AuthenticationError"), None,
                                  Some(rid), 1))
                 ELSE StartRequest(url, DefaultHeaders,
                          Some(Update(IF IsNone(params) THEN EmptyDict
                                      ELSE Get(params),
                                      GetAuthParams(content_key))), rid)
              /\ caller_params' =
                    IF ContentIsConfigured(content_key) /\ IsSome(params)
                    THEN Some(Update(Get(params), GetAuthParams(content_key)))
                    ELSE params
              /\ UNCHANGED authVars
           ELSE
              /\ caller_params' = params
              /\ IF ~IsConfigured(api_key)
                 THEN /\ RaiseBeforeRetry(
                             MkError("AuthenticationError", MSG_ADMIN_NOT_CONFIGURED,
                                     DefaultCode("AuthenticationError"), None,
                                     Some(rid), 1))
                      /\ UNCHANGED authVars
                 ELSE /\ GetJwtToken(Some(rid), 0, 0)
                      /\ IF Get(auth_out').ok
                         THEN StartRequest(url,
                                  Update(DefaultHeaders,
                                         AuthHeaders(Get(Get(auth_out').token))),
                                  params, rid)
                         ELSE RaiseBeforeRetry(Get(Get(auth_out').error))
        /\ UNCHANGED <<base_url, content_key, retry_config, scope, pool_closed,
                       http_calls, sent, transport, all_timed_out, scope_out,
                       all_status_retryable>>
        /\ UNCHANGED <<respVars, extVars>>

\* A _make_request that updates a copy of the caller's params.
MakeRequestCopiesParams(api_type, endpoint, params, rid_arg) ==
    LET rid == IF IsNone(rid_arg) THEN GENERATED_REQUEST_ID ELSE Get(rid_arg)
        url == BuildUrl(base_url, endpoint, api_type)
    IN  /\ scope = "inside"
        /\ IsNone(call)
        /\ call' = Some([api_type |-> api_type, endpoint |-> endpoint,
                         params |-> params, rid_arg |-> rid_arg,
                         request_id |-> rid])
        /\ IF api_type = API_CONTENT THEN
              /\ IF ~ContentIsConfigured(content_key)
                 THEN RaiseBeforeRetry(
                          MkError("AuthenticationError", MSG_CONTENT_NOT_CONFIGURED,
                                  DefaultCode("AuthenticationError"), None,
                                  Some(rid), 1))
                 ELSE StartRequest(url, DefaultHeaders,
                          Some(Update(IF IsNone(params) THEN EmptyDict
                                      ELSE Get(params),
                                      GetAuthParams(content_key))), rid)
              /\ caller_params' = params
              /\ UNCHANGED authVars
           ELSE IF api_type = API_ADMIN THEN
              /\ caller_params' = params
              /\ IF ~IsConfigured(api_key)
                 THEN /\ RaiseBeforeRetry(
                             MkError("AuthenticationError", MSG_ADMIN_NOT_CONFIGURED,
                                     DefaultCode("AuthenticationError"), None,
                                     Some(rid), 1))
                      /\ UNCHANGED authVars
                 ELSE /\ GetJwtToken(Some(rid), 0, 0)
                      /\ IF Get(auth_out').ok
                         THEN StartRequest(url,
                                  Update(DefaultHeaders,
                                         AuthHeaders(Get(Get(auth_out').token))),
                                  params, rid)
                         ELSE RaiseBeforeRetry(Get(Get(auth_out').error))
           ELSE /\ StartRequest(url, DefaultHeaders, params, rid)
                /\ caller_params' = params
                /\ UNCHANGED authVars
        /\ UNCHANGED <<base_url, content_key, retry_config, scope, pool_closed,
                       http_calls, sent, transport, all_timed_out, scope_out,
                       all_status_retryable>>
        /\ UNCHANGED <<respVars, extVars>>

\* _make_request(method, endpoint, api_type, params, request_id=rid_arg) up to
\* its first await inside with_retry: request id, URL, headers, the
\* credentials of the surface, then the call of with_retry.
MakeRequest(api_type, endpoint, params, rid_arg) ==
    LET rid == IF IsNone(rid_arg) THEN GENERATED_REQUEST_ID ELSE Get(rid_arg)
        url == BuildUrl(base_url, endpoint, api_type)
    IN  /\ scope = "inside"
        /\ IsNone(call)
        /\ call' = Some([api_type |-> api_type, endpoint |-> endpoint,
                         params |-> params, rid_arg |-> rid_arg,
                         request_id |-> rid])
        /\ IF api_type = API_CONTENT THEN
              /\ IF ~ContentIsConfigured(content_key)
                 THEN RaiseBeforeRetry(
                          MkError("AuthenticationError", MSG_CONTENT_NOT_CONFIGURED,
                                  DefaultCode("AuthenticationError"), None,
                                  Some(rid), 1))
                 ELSE StartRequest(url, DefaultHeaders,
                          Some(Update(IF IsNone(params) THEN EmptyDict
                                      ELSE Get(params),
                                      GetAuthParams(content_key))), rid)
              /\ caller_params' =
                    IF ContentIsConfigured(content_key) /\ IsSome(params)
                    THEN Some(Update(Get(params), GetAuthParams(content_key)))
                    ELSE params
              /\ UNCHANGED authVars
           ELSE IF api_type = API_ADMIN THEN
              /\ caller_params' = params
              /\ IF ~IsConfigured(api_key)
                 THEN /\ RaiseBeforeRetry(
                             MkError("AuthenticationError", MSG_ADMIN_NOT_CONFIGURED,
                                     DefaultCode("AuthenticationError"), None,
                                     Some(rid), 1))
                      /\ UNCHANGED authVars
                 ELSE /\ GetJwtToken(Some(rid), 0, 0)
                      /\ IF Get(auth_out').ok
                         THEN StartRequest(url,
                                  Update(DefaultHeaders,
                                         AuthHeaders(Get(Get(auth_out').token))),
                                  params, rid)
                         ELSE RaiseBeforeRetry(Get(Get(auth_out').error))
           ELSE /\ StartRequest(url, DefaultHeaders, params, rid)
                /\ caller_params' = params
                /\ UNCHANGED authVars
        /\ UNCHANGED <<base_url, content_key, retry_config, scope, pool_closed,
                       http_calls, sent, transport, all_timed_out, scope_out,
                       all_status_retryable>>
        /\ UNCHANGED <<respVars, extVars>>

\* The HTTP call was answered, with a status the retry policy names: 5xx or
\* 429.
HasRetryableStatus(t) ==
    /\ t.kind = "response"
    /\ \/ Get(t.response).status_code \in 500..599
       \/ Get(t.response).status_code = 429

\* Wall-clock time an HTTP call takes, in ticks: the whole per-call timeout
\* when it times out; the time of the other outcomes is below one tick.
Elapsed(t) ==
    IF t.kind = "TimeoutException" THEN Seconds(DEFAULT_TIMEOUT_S) ELSE 0

\* The time asyncio.sleep(ms / 1000) takes, in ticks: at least the delay; the
\* sleep ends at the next whole second.
Millis(ms) == Seconds((ms + 999) \div 1000)

\* A _request that resolves the credentials of the Admin surface again at
\* every attempt.
SendRequestReauth(t) ==
    LET out == RequestOutcome(t, Get(request_kwargs).url, Get(call).request_id,
                              invocations + 1)
    IN  /\ scope = "inside"
        /\ IsSome(request_kwargs)
        /\ pc = "operation"
        /\ http_calls' = http_calls + 1
        /\ IF Get(call).api_type = API_ADMIN
           THEN /\ cached_token' = Some(EncodeToken(Get(api_key), now))
                /\ token_expires_at' = Some(now + Seconds(60 * CACHE_LIFETIME_MIN))
                /\ mints' = mints + 1
                /\ auth_out' = Some(HandedOut(EncodeToken(Get(api_key), now), TRUE,
                                              now))
                /\ sent' = Some([Get(request_kwargs) EXCEPT !.headers =
                                    Update(DefaultHeaders,
                                           AuthHeaders(EncodeToken(Get(api_key),
                                                                   now)))])
           ELSE /\ sent' = request_kwargs
                /\ UNCHANGED <<cached_token, token_expires_at, mints, auth_out>>
        /\ transport' = Some(t)
        /\ all_timed_out' = (all_timed_out /\ t.kind = "TimeoutException")
        /\ IF out.ok THEN WithRetryReturns(Get(out.value))
           ELSE WithRetryRaises(Get(out.error))
        /\ client_out' = OutcomeOfRetry(pc', retry_result', retry_raised')
        /\ all_status_retryable' =
              (all_status_retryable /\ HasRetryableStatus(t))
        /\ now' = now + Elapsed(t)
        /\ UNCHANGED <<base_url, content_key, retry_config, scope, pool_closed,
                       call, request_kwargs, scope_out, caller_params>>
        /\ UNCHANGED <<api_key, invalidated>>
        /\ UNCHANGED <<respVars, extVars>>

\* One invocation of _request by with_retry: the HTTP call is issued with
\* request_kwargs, self.client.request produces t, and with_retry takes the
\* outcome.
SendRequest(t) ==
    LET out == RequestOutcome(t, Get(request_kwargs).url, Get(call).request_id,
                              invocations + 1)
    IN  /\ scope = "inside"
        /\ IsSome(request_kwargs)
        /\ pc = "operation"
        /\ http_calls' = http_calls + 1
        /\ sent' = request_kwargs
        /\ transport' = Some(t)
        /\ all_timed_out' = (all_timed_out /\ t.kind = "TimeoutException")
        /\ IF out.ok THEN WithRetryReturns(Get(out.value))
           ELSE WithRetryRaises(Get(out.error))
        /\ client_out' = OutcomeOfRetry(pc', retry_result', retry_raised')
        /\ all_status_retryable' =
              (all_status_retryable /\ HasRetryableStatus(t))
        /\ now' = now + Elapsed(t)
        /\ UNCHANGED <<base_url, content_key, retry_config, scope, pool_closed,
                       call, request_kwargs, scope_out, caller_params>>
        /\ UNCHANGED <<api_key, cached_token, token_expires_at, auth_out, mints,
                       invalidated>>
        /\ UNCHANGED <<respVars, extVars>>

\* The sleep of the call's with_retry completes, delay ms after it began.
ClientWake ==
    /\ scope = "inside"
    /\ IsSome(request_kwargs)
    /\ WithRetryWake
    /\ client_out' = OutcomeOfRetry(pc', retry_result', retry_raised')
    /\ now' = now + Millis(delay)
    /\ UNCHANGED <<base_url, content_key, retry_config, scope, pool_closed, call,
                   request_kwargs, http_calls, sent, transport, all_timed_out,
                   scope_out, caller_params, all_status_retryable>>
    /\ UNCHANGED <<api_key, cached_token, token_expires_at, auth_out, mints,
                   invalidated>>
    /\ UNCHANGED <<respVars, extVars>>

\* The asyncio task is cancelled while _make_request awaits: the HTTP call it has just
\* issued, or asyncio.sleep.  asyncio.CancelledError is no Exception, so no
\* except clause of _request or with_retry catches it.
Cancel ==
    /\ scope = "inside"
    /\ IsSome(request_kwargs)
    /\ pc \in {"operation", "sleep"}
    /\ pc' = "cancelled"
    /\ client_out' = Some(Raised(RawException("CancelledError", invocations + 1)))
    /\ all_timed_out' = FALSE
    /\ IF pc = "operation"
       THEN /\ invocations' = invocations + 1
            /\ op_outcome' = Some(Raised(RawException("CancelledError",
                                                      invocations + 1)))
            /\ http_calls' = http_calls + 1
            /\ sent' = request_kwargs
       ELSE UNCHANGED <<invocations, op_outcome, http_calls, sent>>
    /\ UNCHANGED <<config, request_id, attempt, last_exception, delay,
                   suspensions, decision, retry_result, retry_raised,
                   all_retryable>>
    /\ UNCHANGED <<base_url, content_key, retry_config, scope, pool_closed, call,
                   request_kwargs, transport, scope_out, caller_params,
                   all_status_retryable>>
    /\ UNCHANGED <<respVars, authVars, extVars>>

\* An __aexit__ that leaves the pool open.
ExitScopeNoClose ==
    /\ scope = "inside"
    /\ IsSome(client_out)
    /\ scope' = "exited"
    /\ scope_out' = client_out
    /\ UNCHANGED <<base_url, content_key, retry_config, pool_closed, call,
                   request_kwargs, http_calls, sent, transport, all_timed_out,
                   client_out, caller_params, all_status_retryable>>
    /\ UNCHANGED <<retryVars, respVars, authVars, extVars>>

\* The body of the async with block has ended, by returning or by raising:
\* __aexit__ awaits close(), which closes the pool, and returns None, so an
\* exception of the body propagates out of the block.
ExitScope ==
    /\ scope = "inside"
    /\ IsSome(client_out)
    /\ pool_closed' = TRUE
    /\ scope' = "exited"
    /\ scope_out' = client_out
    /\ UNCHANGED <<base_url, content_key, retry_config, call, request_kwargs,
                   http_calls, sent, transport, all_timed_out, client_out,
                   caller_params, all_status_retryable>>
    /\ UNCHANGED <<retryVars, respVars, authVars, extVars>>

\* GhostClient(): no request made, the pool open.  A URL is its origin
\* (scheme and authority) and the segments of its path; every path here ends
\* with "/" (__init__ appends the trailing "/" to base_url).  The retry
\* configuration has max_retries from the configuration (an unvalidated
\* int), base_delay 1.0 and the other fields at their defaults.
ClientInit ==
    /\ base_url \in {[origin |-> ORIGIN, path |-> <<>>],
                     [origin |-> ORIGIN, path |-> <<<<"b", "l", "o", "g">>>>]}
    /\ content_key \in ContentKeys
    /\ retry_config \in {[DefaultRetryConfig EXCEPT !.max_retries = m] :
                            m \in (0 - NegRetries)..MaxClientRetries}
    /\ scope = "outside"
    /\ pool_closed = FALSE
    /\ call = None
    /\ request_kwargs = None
    /\ http_calls = 0
    /\ sent = None
    /\ transport = None
    /\ all_timed_out = TRUE
    /\ client_out = None
    /\ scope_out = None
    /\ caller_params = None
    /\ all_status_retryable = TRUE

\* A client with no Content key and the default retry configuration, that
\* is left alone.
ClientInitUnused ==
    /\ base_url = [origin |-> ORIGIN, path |-> <<>>]
    /\ content_key = None
    /\ retry_config = DefaultRetryConfig
    /\ scope = "outside"
    /\ pool_closed = FALSE
    /\ call = None
    /\ request_kwargs = None
    /\ http_calls = 0
    /\ sent = None
    /\ transport = None
    /\ all_timed_out = TRUE
    /\ client_out = None
    /\ scope_out = None
    /\ caller_params = None
    /\ all_status_retryable = TRUE

\* The operations of a client.  A request names one of the three surfaces;
\* its endpoint is f"posts/{post_id}/" for the ids "5ddc" and
\* "../../admin/site" (an id is only stripped and tested for emptiness before
\* it is formatted in); its params are None or a dict the caller built.
ClientNext ==
    \/ EnterScope
    \/ \E api_type \in {API_CONTENT, API_ADMIN,
                        <<"m", "e", "m", "b", "e", "r", "s">>},
          endpoint \in {<<SEG_POSTS, SEG_ID>>,
                        <<SEG_POSTS, SEG_DOTDOT, SEG_DOTDOT, API_ADMIN,
                          <<"s", "i", "t", "e">>>>},
          params \in {None, Some([limit |-> "5"])},
          rid_arg \in OptRequestIds :
          MakeRequest(api_type, endpoint, params, rid_arg)
    \/ \E t \in TransportOutcomes : SendRequest(t)
    \/ ClientWake
    \/ Cancel
    \/ ExitScope

\* The provider of a client, nothing cached.  Its Admin key is absent,
\* without separator, with a secret that is not hex, or usable.
AuthInitClient ==
    /\ now = 0
    /\ api_key \in {None, Some(<<"a", "b", "c">>),
                    Some(<<"a", "b", ":", "z", "z">>),
                    Some(<<"a", "b", ":", "c", "d">>)}
    /\ cached_token = None
    /\ token_expires_at = None
    /\ auth_out = None
    /\ mints = 0
    /\ invalidated = FALSE

AuthInit ==
    /\ now \in 0..(TicksPerSec - 1)
    /\ api_key \in AdminKeys
    /\ cached_token = None
    /\ token_expires_at = None
    /\ auth_out = None
    /\ mints = 0
    /\ invalidated = FALSE

\* AdminAuth(None) with no configured key, at time 0.
AuthInitNoKey ==
    /\ now = 0
    /\ api_key = None
    /\ cached_token = None
    /\ token_expires_at = None
    /\ auth_out = None
    /\ mints = 0
    /\ invalidated = FALSE

\* The operations of a provider.  The time that passes between two calls is
\* the safety margin, the cache lifetime less the margin, or one tick less
\* than that.
AuthNext ==
    \/ \E rid \in OptRequestIds, d1 \in 0..MaxLatency, d2 \in 0..MaxLatency :
          GetAuthHeaders(rid, d1, d2)
    \/ InvalidateCache
    \/ \E d \in {Seconds(SAFETY_MARGIN_S),
                  Seconds(60 * CACHE_LIFETIME_MIN - SAFETY_MARGIN_S) - 1,
                  Seconds(60 * CACHE_LIFETIME_MIN - SAFETY_MARGIN_S)} :
          Tick(d)

---------------------------------------------------------------------------
\* Callers of one shared AdminAuth instance (auth/admin_auth.py), one
\* attribute access at a time

\* The number of callers of the shared instance.
NumCallers == 2

\* The callers that may be inside _get_jwt_token at the same time.
Callers == 1..NumCallers

\* What a caller gets when _get_jwt_token raises.
RaceRaised(kind, message, context, rid, at) ==
    [ok |-> FALSE, token |-> None, at |-> at,
     error |-> Some(MkError(kind, message, DefaultCode(kind), context, rid, 1))]

\* Lines 35-40: the call starts; without a key it raises at once.
RaceCall(c, rid) ==
    /\ rpc[c] = "idle"
    /\ IF KeyAbsent(api_key) THEN
          /\ rout' = [rout EXCEPT ![c] =
                Some(RaceRaised("AuthenticationError", MSG_NOT_CONFIGURED,
                                Some(CTX_NOT_CONFIGURED), rid, now))]
          /\ UNCHANGED rpc
       ELSE
          /\ rout' = [rout EXCEPT ![c] = None]
          /\ rpc' = [rpc EXCEPT ![c] = "l43_token"]
    /\ UNCHANGED <<rtoken, inv_pc, minted_tokens>>
    /\ UNCHANGED <<retryVars, respVars, authVars, clientVars, toolVars, serverVars>>

\* Line 43, left operand: self._cached_token is read and tested.
RaceTestToken(c) ==
    /\ rpc[c] = "l43_token"
    /\ rpc' = [rpc EXCEPT ![c] = IF IsSome(cached_token) THEN "l43_expiry"
                                                          ELSE "l49"]
    /\ UNCHANGED <<rtoken, rout, inv_pc, minted_tokens>>
    /\ UNCHANGED <<retryVars, respVars, authVars, clientVars, toolVars, serverVars>>

\* Line 43, right operand: self._token_expires_at is read and tested.
RaceTestExpiry(c) ==
    /\ rpc[c] = "l43_expiry"
    /\ rpc' = [rpc EXCEPT ![c] = IF IsSome(token_expires_at) THEN "l44"
                                                              ELSE "l49"]
    /\ UNCHANGED <<rtoken, rout, inv_pc, minted_tokens>>
    /\ UNCHANGED <<retryVars, respVars, authVars, clientVars, toolVars, serverVars>>

\* Line 44: self._token_expires_at is read again and compared with the
\* clock; None - timedelta raises TypeError.
RaceCompare(c) ==
    /\ rpc[c] = "l44"
    /\ IF IsNone(token_expires_at) THEN
          /\ rout' = [rout EXCEPT ![c] =
                Some(RaceRaised("TypeError",
                                "unsupported operand type(s) for -: 'NoneType' and 'datetime.timedelta'",
                                None, None, now))]
          /\ rpc' = [rpc EXCEPT ![c] = "idle"]
       ELSE
          /\ rpc' = [rpc EXCEPT ![c] =
                IF now < Get(token_expires_at) - Seconds(SAFETY_MARGIN_S)
                THEN "l46" ELSE "l49"]
          /\ UNCHANGED rout
    /\ UNCHANGED <<rtoken, inv_pc, minted_tokens>>
    /\ UNCHANGED <<retryVars, respVars, authVars, clientVars, toolVars, serverVars>>

\* Line 46: return self._cached_token, read at the return.
RaceReturnCached(c) ==
    /\ rpc[c] = "l46"
    /\ rout' = [rout EXCEPT ![c] = Some([ok |-> TRUE, token |-> cached_token, at |-> now, error |-> None])]
    /\ rpc' = [rpc EXCEPT ![c] = "idle"]
    /\ UNCHANGED <<rtoken, inv_pc, minted_tokens>>
    /\ UNCHANGED <<retryVars, respVars, authVars, clientVars, toolVars, serverVars>>

\* Line 49: token = self._generate_jwt_token(request_id), which raises for
\* a key it cannot use.
RaceMint(c, rid) ==
    /\ rpc[c] = "l49"
    /\ IF ~CanMint(Get(api_key)) THEN
          /\ rout' = [rout EXCEPT ![c] =
                Some(RaceRaised("AuthenticationError", MSG_GENERATE_FAILED,
                                Some(CTX_GENERATE_FAILED), rid, now))]
          /\ rpc' = [rpc EXCEPT ![c] = "idle"]
          /\ UNCHANGED <<rtoken, minted_tokens, mints>>
       ELSE
          /\ mints < MaxMints
          /\ mints' = mints + 1
          /\ rtoken' = [rtoken EXCEPT ![c] = Some(EncodeToken(Get(api_key), now))]
          /\ minted_tokens' = minted_tokens \cup {EncodeToken(Get(api_key), now)}
          /\ rpc' = [rpc EXCEPT ![c] = "l50"]
          /\ UNCHANGED rout
    /\ UNCHANGED <<now, api_key, cached_token, token_expires_at, auth_out,
                   invalidated>>
    /\ UNCHANGED inv_pc
    /\ UNCHANGED <<retryVars, respVars, clientVars, toolVars, serverVars>>

\* Line 50: self._cached_token = token
RaceStoreToken(c) ==
    /\ rpc[c] = "l50"
    /\ cached_token' = rtoken[c]
    /\ rpc' = [rpc EXCEPT ![c] = "l53"]
    /\ UNCHANGED <<now, api_key, token_expires_at, auth_out, mints, invalidated>>
    /\ UNCHANGED <<rtoken, rout, inv_pc, minted_tokens>>
    /\ UNCHANGED <<retryVars, respVars, clientVars, toolVars, serverVars>>

\* Lines 53-56: self._token_expires_at = datetime.now() + timedelta(minutes=5)
\* and return token, the local variable.
RaceStoreExpiry(c) ==
    /\ rpc[c] = "l53"
    /\ token_expires_at' = Some(now + Seconds(60 * CACHE_LIFETIME_MIN))
    /\ rout' = [rout EXCEPT ![c] = Some([ok |-> TRUE, token |-> rtoken[c], at |-> now, error |-> None])]
    /\ rtoken' = [rtoken EXCEPT ![c] = None]
    /\ rpc' = [rpc EXCEPT ![c] = "idle"]
    /\ UNCHANGED <<now, api_key, cached_token, auth_out, mints, invalidated>>
    /\ UNCHANGED <<inv_pc, minted_tokens>>
    /\ UNCHANGED <<retryVars, respVars, clientVars, toolVars, serverVars>>

\* invalidate_cache(), line 132: self._cached_token = None
RaceInvalidateToken ==
    /\ inv_pc = "idle"
    /\ cached_token' = None
    /\ inv_pc' = "l133"
    /\ UNCHANGED <<now, api_key, token_expires_at, auth_out, mints, invalidated>>
    /\ UNCHANGED <<rpc, rtoken, rout, minted_tokens>>
    /\ UNCHANGED <<retryVars, respVars, clientVars, toolVars, serverVars>>

\* invalidate_cache(), line 133: self._token_expires_at = None
RaceInvalidateExpiry ==
    /\ inv_pc = "l133"
    /\ token_expires_at' = None
    /\ inv_pc' = "idle"
    /\ UNCHANGED <<now, api_key, cached_token, auth_out, mints, invalidated>>
    /\ UNCHANGED <<rpc, rtoken, rout, minted_tokens>>
    /\ UNCHANGED <<retryVars, respVars, clientVars, toolVars, serverVars>>

\* Nobody is inside _get_jwt_token or invalidate_cache.
RaceQuiet == inv_pc = "idle" /\ \A c \in Callers : rpc[c] = "idle"

\* Time passes between calls; the callers have consumed what they got.
RaceTick(d) ==
    /\ RaceQuiet
    /\ now + d <= Seconds(MaxNow)
    /\ now' = now + d
    /\ rout' = [c \in Callers |-> None]
    /\ UNCHANGED <<api_key, cached_token, token_expires_at, auth_out, mints,
                   invalidated>>
    /\ UNCHANGED <<rpc, rtoken, inv_pc, minted_tokens>>
    /\ UNCHANGED <<retryVars, respVars, clientVars, toolVars, serverVars>>

RaceInit ==
    /\ rpc = [c \in Callers |-> "idle"]
    /\ rtoken = [c \in Callers |-> None]
    /\ rout = [c \in Callers |-> None]
    /\ inv_pc = "idle"
    /\ minted_tokens = {}

\* The steps of the callers and of invalidate_cache, and the time that
\* passes between two calls: what makes a fresh cache entry stale.
RaceNext ==
    \/ \E c \in Callers, rid \in OptRequestIds : RaceCall(c, rid)
    \/ \E c \in Callers : RaceTestToken(c)
    \/ \E c \in Callers : RaceTestExpiry(c)
    \/ \E c \in Callers : RaceCompare(c)
    \/ \E c \in Callers : RaceReturnCached(c)
    \/ \E c \in Callers, rid \in OptRequestIds : RaceMint(c, rid)
    \/ \E c \in Callers : RaceStoreToken(c)
    \/ \E c \in Callers : RaceStoreExpiry(c)
    \/ RaceInvalidateToken
    \/ RaceInvalidateExpiry
    \/ \E d \in {Seconds(60 * CACHE_LIFETIME_MIN - SAFETY_MARGIN_S)} : RaceTick(d)

---------------------------------------------------------------------------
\* Server start (server.py, config.py)

\* The tools of register_content_tools: posts, pages, tags, authors and
\* settings.
ContentTools ==
    {"get_posts", "get_post_by_id", "get_post_by_slug", "search_posts",
     "get_pages", "get_page_by_id", "get_page_by_slug",
     "get_tags", "get_tag_by_id", "get_tag_by_slug",
     "get_authors", "get_author_by_id", "get_author_by_slug",
     "get_settings", "get_site_info"}

\* The tools of register_admin_tools: posts, pages and tags.
AdminTools ==
    {"create_post", "update_post", "delete_post", "get_admin_posts",
     "create_page", "update_page", "delete_page", "get_admin_pages",
     "create_tag"}

\* The tool server.py itself declares with @mcp.tool().
ServerTools == {"check_ghost_connection"}

\* A register_tools that does not look at the mode.
RegisterToolsIgnoreMode ==
    /\ server_pc = "loaded"
    /\ registered' =
          registered
            \cup (IF ContentIsConfigured(content_api_key) THEN ContentTools ELSE {})
            \cup (IF ~KeyAbsent(admin_api_key) THEN AdminTools ELSE {})
    /\ server_pc' = "registered"
    /\ UNCHANGED <<mode, content_api_key, admin_api_key>>
    /\ UNCHANGED <<retryVars, respVars, authVars, clientVars, toolVars, raceVars>>

\* register_tools(): the Content tools when the Content key is truthy, the
\* Admin tools when the mode is "readwrite" or "auto" and the Admin key is
\* truthy.
RegisterTools ==
    /\ server_pc = "loaded"
    /\ registered' =
          registered
            \cup (IF ContentIsConfigured(content_api_key) THEN ContentTools ELSE {})
            \cup (IF mode \in {"readwrite", "auto"} /\ ~KeyAbsent(admin_api_key)
                  THEN AdminTools ELSE {})
    /\ server_pc' = "registered"
    /\ UNCHANGED <<mode, content_api_key, admin_api_key>>
    /\ UNCHANGED <<retryVars, respVars, authVars, clientVars, toolVars, raceVars>>

\* main() after register_tools(): mcp.run() serves the registered tools.
Run ==
    /\ server_pc = "registered"
    /\ server_pc' = "running"
    /\ UNCHANGED <<mode, content_api_key, admin_api_key, registered>>
    /\ UNCHANGED <<retryVars, respVars, authVars, clientVars, toolVars, raceVars>>

\* The module server.py is imported: the configuration is loaded and only
\* the server's own tool is declared.  mode is a value of GhostMode; the
\* Content key as loaded is unset, empty or a key.
ServerInit ==
    /\ mode \in {"readonly", "readwrite", "auto"}
    /\ content_api_key \in {None, Some(""), Some("content-key-1")}
    /\ admin_api_key \in AdminKeys
    /\ registered = ServerTools
    /\ server_pc = "loaded"

\* A server with the default configuration that is left alone.
ServerInitUnused ==
    /\ mode = "auto"
    /\ content_api_key = None
    /\ admin_api_key = None
    /\ registered = ServerTools
    /\ server_pc = "loaded"

ServerNext == RegisterTools \/ Run

---------------------------------------------------------------------------
\* Tool handlers (tools/content/posts.py, tools/admin/posts.py,
\* tools/admin/tags.py) and their validators (utils/validation.py,
\* utils/content_validation.py).  A str the code inspects is a sequence of
\* characters; a message literal is written as it stands, and an f-string
\* as the tuple of its literal parts and the values formatted in.

UPPER_CHARS == <<"A", "B", "C", "D", "E", "F", "G", "H", "I", "J", "K", "L", "M", "N", "O", "P", "Q", "R", "S", "T", "U", "V", "W", "X", "Y", "Z">>

LOWER_CHARS == <<"a", "b", "c", "d", "e", "f", "g", "h", "i", "j", "k", "l", "m", "n", "o", "p", "q", "r", "s", "t", "u", "v", "w", "x", "y", "z">>

ST_DRAFT == <<"d", "r", "a", "f", "t">>

ST_SCHEDULED == <<"s", "c", "h", "e", "d", "u", "l", "e", "d">>

RECURSIVE LStrip(_)
\* str.lstrip()
LStrip(s) ==
    IF Len(s) > 0 /\ Head(s) \in {" ", "\t", "\n"} THEN LStrip(Tail(s)) ELSE s

RECURSIVE RStrip(_)
\* str.rstrip()
RStrip(s) ==
    IF Len(s) > 0 /\ s[Len(s)] \in {" ", "\t", "\n"}
    THEN RStrip(SubSeq(s, 1, Len(s) - 1)) ELSE s

\* str.strip(): whitespace removed at both ends.
Strip(s) == RStrip(LStrip(s))

\* str.lower()
Lower(s) ==
    [i \in 1..Len(s) |->
        IF \E j \in 1..Len(UPPER_CHARS) : UPPER_CHARS[j] = s[i]
        THEN LOWER_CHARS[CHOOSE j \in 1..Len(UPPER_CHARS) : UPPER_CHARS[j] = s[i]]
        ELSE s[i]]

\* str.count(ch)
CountChar(s, ch) == Cardinality({i \in 1..Len(s) : s[i] = ch})

\* \d of a pattern, on every character of s.
AllDigits(s) ==
    \A i \in 1..Len(s) :
        s[i] \in {"0", "1", "2", "3", "4", "5", "6", "7", "8", "9"}

\* re.match(r'^\d{4}-\d{2}-\d{2}T\d{2}:\d{2}:\d{2}(\.\d{3})?Z?$', s) for an s
\* without line breaks.
MatchesIso(s) ==
    /\ Len(s) >= 19
    /\ AllDigits(SubSeq(s, 1, 4)) /\ s[5] = "-"
    /\ AllDigits(SubSeq(s, 6, 7)) /\ s[8] = "-"
    /\ AllDigits(SubSeq(s, 9, 10)) /\ s[11] = "T"
    /\ AllDigits(SubSeq(s, 12, 13)) /\ s[14] = ":"
    /\ AllDigits(SubSeq(s, 15, 16)) /\ s[17] = ":"
    /\ AllDigits(SubSeq(s, 18, 19))
    /\ LET rest == SubSeq(s, 20, Len(s))
           frac == Len(rest) >= 4 /\ rest[1] = "." /\ AllDigits(SubSeq(rest, 2, 4))
           tail == IF frac THEN SubSeq(rest, 5, Len(rest)) ELSE rest
       IN  tail \in {<<>>, <<"Z">>}

\* re.match(r'^[a-zA-Z0-9-_]+$', s) for an s without line breaks.
MatchesSlug(s) ==
    /\ Len(s) >= 1
    /\ \A i \in 1..Len(s) :
          \/ AllDigits(<<s[i]>>)
          \/ s[i] \in {"-", "_"}
          \/ \E j \in 1..Len(LOWER_CHARS) :
                s[i] = LOWER_CHARS[j] \/ s[i] = UPPER_CHARS[j]

\* ValidationError(message, context=context)
ValidationErr(message, context) ==
    MkError("ValidationError", message, DefaultCode("ValidationError"), context,
            None, 1)

\* validate_filter_syntax(filter_string)
ValidateFilterSyntax(filter_string) ==
    \/ Len(filter_string) = 0
    \/ /\ CountChar(filter_string, "(") = CountChar(filter_string, ")")
       /\ CountChar(filter_string, "[") = CountChar(filter_string, "]")

\* validate_id_parameter(id_value, parameter_name)
ValidateIdParameter(id_value, parameter_name) ==
    IF Len(id_value) = 0
    THEN Raised(ValidationErr(<<"Invalid ", parameter_name,
                                ": must be a non-empty string">>, None))
    ELSE IF Len(Strip(id_value)) = 0
    THEN Raised(ValidationErr(<<"Invalid ", parameter_name,
                                ": cannot be empty or whitespace">>, None))
    ELSE Returned(Strip(id_value))

\* validate_slug_parameter(slug)
ValidateSlugParameter(slug) ==
    IF Len(slug) = 0
    THEN Raised(ValidationErr("Invalid slug: must be a non-empty string", None))
    ELSE IF Len(Strip(slug)) = 0
    THEN Raised(ValidationErr("Invalid slug: cannot be empty or whitespace", None))
    ELSE IF ~MatchesSlug(Strip(slug))
    THEN Raised(ValidationErr("Invalid slug: must contain only alphanumeric characters, hyphens, and underscores",
                              None))
    ELSE Returned(Strip(slug))

\* validate_status(status)
ValidateStatus(status) ==
    IF Len(status) = 0
    THEN Raised(ValidationErr("Content status must be specified",
                    Some("Valid values: 'draft', 'published', 'scheduled'")))
    ELSE IF Strip(Lower(status)) \notin {ST_DRAFT, <<"p", "u", "b", "l", "i", "s", "h", "e", "d">>, ST_SCHEDULED}
    THEN Raised(ValidationErr(<<"Invalid content status: '", status, "'">>,
                    Some("Valid values: draft, published, scheduled")))
    ELSE Returned(Strip(Lower(status)))

MAX_TITLE_LEN == 255

\* validate_title(title)
ValidateTitle(title) ==
    IF Len(title) = 0
    THEN Raised(ValidationErr("Title is required",
                    Some("Provide a descriptive title for your content")))
    ELSE IF Len(Strip(title)) = 0
    THEN Raised(ValidationErr("Title cannot be empty or whitespace only",
                    Some("Provide a meaningful title for your content")))
    ELSE IF Len(Strip(title)) > MAX_TITLE_LEN
    THEN Raised(ValidationErr(<<"Title too long: ", Len(Strip(title)),
                                " characters (max: 255)">>,
                    Some("Shorten the title to 255 characters or less")))
    ELSE Returned(Strip(title))

\* validate_published_at(published_at): the value returned is an
\* Optional[str], None for None and for a blank string.
ValidatePublishedAt(published_at) ==
    IF IsNone(published_at) THEN Returned(None)
    ELSE IF Len(Strip(Get(published_at))) = 0 THEN Returned(None)
    ELSE IF ~MatchesIso(Strip(Get(published_at)))
    THEN Raised(ValidationErr(<<"Invalid datetime format: '",
                                Strip(Get(published_at)), "'">>,
                    Some("Use ISO 8601 format: '2024-01-01T10:00:00.000Z'")))
    ELSE Returned(Some(Strip(Get(published_at))))

\* json.dumps(obj, ...): the str that holds the JSON text of obj.
Dumps(obj) == [type |-> "str", json |-> obj]

\* json.loads(s)
Loads(s) == s.json

\* What the except clauses of a tool's handler return for an exception e:
\* create_post and update_post render a ValidationError with its context
\* and category and anything else as unexpected; the other handlers return
\* {"error": str(e)}.
ErrorJson(tool, e) ==
    IF tool \notin {"create_post", "update_post"} THEN [error |-> e.message]
    ELSE IF e.kind = "ValidationError"
    THEN [error |-> e.message, context |-> e.context,
          category |-> Get(e.category),
          examples |-> "get_content_format_examples()"]
    ELSE [error |-> <<"Unexpected error: ", e.message>>,
          context |-> Some("Please check your input parameters and try again")]

\* `except Exception` catches e: every exception but asyncio.CancelledError
\* (a BaseException).
IsException(e) == e.kind # "CancelledError"

\* What a handler does before it opens a client: it returns a str, or goes
\* on to one client call.
PlanReturn(obj) == [kind |-> "return", out |-> Some(Dumps(obj)), request |-> None]

PlanRequest(method, endpoint, api_type, params, json_data) ==
    [kind |-> "request", out |-> None,
     request |-> Some([method |-> method, endpoint |-> endpoint,
                       api_type |-> api_type, params |-> params,
                       json_data |-> json_data])]

\* A dict with the keys of ks whose argument in call c is not None.
ParamsOf(c, ks) == [k \in {x \in ks : IsSome(c[x])} |-> Get(c[k])]

\* get_posts (tools/content/posts.py) and GhostClient.get_posts
GetPostsPlan(c) ==
    IF IsSome(c.limit) /\ (Get(c.limit) < 1 \/ Get(c.limit) > 50)
    THEN PlanReturn([error |-> "Limit must be between 1 and 50"])
    ELSE IF IsSome(c.page) /\ Get(c.page) < 1
    THEN PlanReturn([error |-> "Page must be 1 or greater"])
    ELSE IF IsSome(c.filter) /\ Len(Get(c.filter)) > 0
              /\ ~ValidateFilterSyntax(Get(c.filter))
    THEN PlanReturn([error |-> "Invalid filter syntax"])
    ELSE PlanRequest("GET", <<SEG_POSTS>>, API_CONTENT,
                     Some(ParamsOf(c, {"limit", "page", "filter"})), None)

\* search_posts and GhostClient.get_posts
SearchPostsPlan(c) ==
    LET query == Get(c.query)
        search_filter == <<"title:~'", query, "',plaintext:~'", query, "'">>
    IN  IF Len(query) = 0 \/ Len(Strip(query)) = 0
        THEN PlanReturn([error |-> "Query parameter is required"])
        ELSE IF IsSome(c.limit) /\ (Get(c.limit) < 1 \/ Get(c.limit) > 50)
        THEN PlanReturn([error |-> "Limit must be between 1 and 50"])
        ELSE PlanRequest("GET", <<SEG_POSTS>>, API_CONTENT,
                         Some(Update(ParamsOf(c, {"limit"}),
                                     [filter |-> search_filter])), None)

\* get_post_by_id and GhostClient.get_post_by_id
GetPostByIdPlan(c) ==
    LET id == ValidateIdParameter(Get(c.post_id), "post_id")
    IN  IF ~id.ok THEN PlanReturn(ErrorJson(c.tool, Get(id.error)))
        ELSE PlanRequest("GET", <<SEG_POSTS, Get(id.value)>>, API_CONTENT,
                         Some(EmptyDict), None)

\* get_post_by_slug and GhostClient.get_post_by_slug
GetPostBySlugPlan(c) ==
    LET slug == ValidateSlugParameter(Get(c.slug))
    IN  IF ~slug.ok THEN PlanReturn(ErrorJson(c.tool, Get(slug.error)))
        ELSE PlanRequest("GET", <<SEG_POSTS, <<"s", "l", "u", "g">>, Get(slug.value)>>,
                         API_CONTENT, Some(EmptyDict), None)

\* delete_post (tools/admin/posts.py) and GhostClient.delete_post
DeletePostPlan(c) ==
    LET id == ValidateIdParameter(Get(c.post_id), "post_id")
    IN  IF ~id.ok THEN PlanReturn(ErrorJson(c.tool, Get(id.error)))
        ELSE PlanRequest("DELETE", <<SEG_POSTS, Get(id.value)>>, API_ADMIN,
                         None, None)

\* create_tag (tools/admin/tags.py), with the default description
CreateTagPlan(c) ==
    LET name == Get(c.name)
    IN  IF Len(name) = 0 \/ Len(Strip(name)) = 0
        THEN PlanReturn([error |-> "Tag name is required"])
        ELSE PlanRequest("POST", <<<<"t", "a", "g", "s">>>>, API_ADMIN, None,
                 Some([tags |-> <<[name |-> Strip(name), description |-> <<>>]>>]))

\* The error return of a scheduled post without a date.
ScheduledNeedsDate ==
    [error |-> "Scheduled posts require a published_at date",
     context |-> Some("Provide published_at in ISO format: '2024-01-01T10:00:00.000Z'"),
     examples |-> "get_content_format_examples()"]

\* create_post with title, status and published_at (content, slug, excerpt,
\* tags, authors and the meta fields left at their defaults) and
\* GhostClient.create_post.  The value of a nullable key of the post is an
\* Optional.
CreatePostPlan(c) ==
    LET title == ValidateTitle(Get(c.title))
        status == ValidateStatus(Get(c.status))
        published_at == ValidatePublishedAt(c.published_at)
    IN  IF ~title.ok THEN PlanReturn(ErrorJson(c.tool, Get(title.error)))
        ELSE IF ~status.ok THEN PlanReturn(ErrorJson(c.tool, Get(status.error)))
        ELSE IF ~published_at.ok
        THEN PlanReturn(ErrorJson(c.tool, Get(published_at.error)))
        ELSE IF Get(status.value) = ST_SCHEDULED /\ IsNone(Get(published_at.value))
        THEN PlanReturn(ScheduledNeedsDate)
        ELSE LET post == [title |-> Get(title.value),
                          status |-> Get(status.value),
                          featured |-> FALSE]
                 dated == IF IsSome(Get(published_at.value))
                          THEN Update(post,
                                      [published_at |-> Get(published_at.value)])
                          ELSE post
             IN  PlanRequest("POST", <<SEG_POSTS>>, API_ADMIN, None,
                             Some([posts |-> <<dated>>]))

\* update_post with post_id, title, status and published_at (the other
\* arguments None) and GhostClient.update_post.
UpdatePostPlan(c) ==
    LET id == ValidateIdParameter(Get(c.post_id), "post_id")
        title == ValidateTitle(Get(c.title))
        status == ValidateStatus(Get(c.status))
        published_at == ValidatePublishedAt(c.published_at)
        post1 == IF IsSome(c.title) THEN [title |-> Get(title.value)] ELSE EmptyDict
        post2 == IF IsSome(c.status)
                 THEN Update(post1, [status |-> Get(status.value)]) ELSE post1
        post3 == IF IsSome(c.published_at)
                 THEN Update(post2, [published_at |-> Get(published_at.value)])
                 ELSE post2
    IN  IF ~id.ok THEN PlanReturn(ErrorJson(c.tool, Get(id.error)))
        ELSE IF IsSome(c.title) /\ ~title.ok
        THEN PlanReturn(ErrorJson(c.tool, Get(title.error)))
        ELSE IF IsSome(c.status) /\ ~status.ok
        THEN PlanReturn(ErrorJson(c.tool, Get(status.error)))
        ELSE IF IsSome(c.status) /\ Get(status.value) = ST_SCHEDULED
                  /\ IsNone(c.published_at)
        THEN PlanReturn(ScheduledNeedsDate)
        ELSE IF IsSome(c.published_at) /\ ~published_at.ok
        THEN PlanReturn(ErrorJson(c.tool, Get(published_at.error)))
        ELSE IF DOMAIN post3 = {}
        THEN PlanReturn([error |-> "At least one field must be provided for update",
                         context |-> Some("Provide title, content, status, or other fields to update")])
        ELSE PlanRequest("PUT", <<SEG_POSTS, Get(id.value)>>, API_ADMIN, None,
                         Some([posts |-> <<post3>>]))

\* The handler of call c up to its client call.
HandlerPlan(c) ==
    CASE c.tool = "get_posts"        -> GetPostsPlan(c)
      [] c.tool = "search_posts"     -> SearchPostsPlan(c)
      [] c.tool = "get_post_by_id"   -> GetPostByIdPlan(c)
      [] c.tool = "get_post_by_slug" -> GetPostBySlugPlan(c)
      [] c.tool = "create_post"      -> CreatePostPlan(c)
      [] c.tool = "update_post"      -> UpdatePostPlan(c)
      [] c.tool = "delete_post"      -> DeletePostPlan(c)
      [] c.tool = "create_tag"       -> CreateTagPlan(c)

\* The arguments of a tool call; an argument the tool does not have, or one
\* the caller leaves at a default of None, is None.
NoArgs ==
    [tool |-> "", limit |-> None, page |-> None, filter |-> None,
     post_id |-> None, slug |-> None, query |-> None, title |-> None,
     status |-> None, published_at |-> None, name |-> None]

\* The published_at arguments: not given, empty, blank, a date, no date.
PublishedAtArgs ==
    {None, Some(<<>>), Some(<<" ", " ">>), Some(<<"2", "0", "2", "4", "-", "0", "1", "-", "0", "1", "T", "1", "0", ":", "0", "0", ":", "0", "0", ".", "0", "0", "0", "Z">>),
     Some(<<"s", "o", "o", "n">>)}

\* The tool calls of a client of the server: limits inside and outside
\* 1..50, a page below 1, filters with and without balanced parentheses;
\* ids and slugs that are usable, padded, blank, empty or malformed; statuses
\* "draft", "Scheduled " and one that is none.
ToolCalls ==
    {[NoArgs EXCEPT !.tool = "get_posts", !.limit = a[1], !.page = a[2],
                    !.filter = a[3]] :
        a \in {<<None, None, None>>, <<Some(5), None, Some(<<"a", ":", "b">>)>>,
               <<Some(0), None, None>>, <<None, Some(0), None>>,
               <<None, None, Some(<<"(", "a", ":", "b">>)>>}}
      \cup {[NoArgs EXCEPT !.tool = "search_posts", !.query = Some(a[1]),
                           !.limit = a[2]] :
               a \in {<<<<"g", "o">>, None>>, <<<<"g", "o">>, Some(51)>>,
                      <<<<" ", " ">>, None>>, <<<<>>, None>>}}
      \cup {[NoArgs EXCEPT !.tool = "get_post_by_id", !.post_id = Some(id)] :
               id \in {SEG_ID, <<" ">> \o SEG_ID \o <<" ">>, <<" ", " ">>, <<>>}}
      \cup {[NoArgs EXCEPT !.tool = "get_post_by_slug", !.slug = Some(s)] :
               s \in {<<"a", "-", "1">>, <<"a", " ", "1">>, <<>>}}
      \cup {[NoArgs EXCEPT !.tool = "create_post", !.title = Some(<<"H", "i">>),
                           !.status = Some(st), !.published_at = p] :
               st \in {ST_DRAFT, <<"S">> \o Tail(ST_SCHEDULED) \o <<" ">>,
                       <<"l", "a", "t", "e", "r">>},
               p \in PublishedAtArgs}
      \cup {[NoArgs EXCEPT !.tool = "create_post", !.title = Some(<<" ", " ">>),
                           !.status = Some(ST_DRAFT)]}
      \cup {[NoArgs EXCEPT !.tool = "update_post", !.post_id = Some(SEG_ID),
                           !.title = ti, !.status = st, !.published_at = p] :
               ti \in {None, Some(<<"H", "i">>)},
               st \in {None, Some(ST_DRAFT),
                       Some(<<"S">> \o Tail(ST_SCHEDULED) \o <<" ">>)},
               p \in PublishedAtArgs}
      \cup {[NoArgs EXCEPT !.tool = "update_post", !.post_id = Some(<<>>),
                           !.status = Some(ST_DRAFT)]}
      \cup {[NoArgs EXCEPT !.tool = "delete_post", !.post_id = Some(id)] :
               id \in {SEG_ID, <<>>}}
      \cup {[NoArgs EXCEPT !.tool = "create_tag", !.name = Some(n)] :
               n \in {<<"n", "e", "w", "s">>, <<" ", " ">>}}

\* A handler whose except clauses render typed errors only.
ToolReturnTypedOnly ==
    /\ tool_pc = "client"
    /\ scope = "exited"
    /\ IF Get(scope_out).ok
       THEN /\ tool_out' = Some(Dumps(Get(Get(scope_out).value)))
            /\ tool_pc' = "returned"
       ELSE IF IsNone(Get(Get(scope_out).error).category)
       THEN /\ tool_out' = None
            /\ tool_pc' = "escaped"
       ELSE /\ tool_out' = Some(Dumps(ErrorJson(Get(tool_call).tool,
                                                 Get(Get(scope_out).error))))
            /\ tool_pc' = "returned"
    /\ UNCHANGED <<tool_call, tool_request>>
    /\ UNCHANGED <<retryVars, respVars, authVars, clientVars, raceVars, serverVars>>

\* The tool is called: the handler runs up to its client call, or returns
\* before it.
ToolCall(c) ==
    /\ tool_pc = "idle"
    /\ tool_call' = Some(c)
    /\ tool_out' = HandlerPlan(c).out
    /\ tool_request' = HandlerPlan(c).request
    /\ tool_pc' = IF HandlerPlan(c).kind = "return" THEN "returned" ELSE "client"
    /\ UNCHANGED <<retryVars, respVars, authVars, clientVars, raceVars, serverVars>>

\* The client call of the handler: _make_request with the method, endpoint,
\* surface, params and json_data of the plan and no request_id.
ToolMakeRequest ==
    /\ tool_pc = "client"
    /\ MakeRequest(Get(tool_request).api_type, Get(tool_request).endpoint,
                   Get(tool_request).params, None)

\* The handler ends: `return json.dumps(result, indent=2, default=str)` or
\* an except clause; asyncio.CancelledError passes the except clauses.
ToolReturn ==
    /\ tool_pc = "client"
    /\ scope = "exited"
    /\ IF Get(scope_out).ok
       THEN /\ tool_out' = Some(Dumps(Get(Get(scope_out).value)))
            /\ tool_pc' = "returned"
       ELSE IF ~IsException(Get(Get(scope_out).error))
       THEN /\ tool_out' = None
            /\ tool_pc' = "escaped"
       ELSE /\ tool_out' = Some(Dumps(ErrorJson(Get(tool_call).tool,
                                                 Get(Get(scope_out).error))))
            /\ tool_pc' = "returned"
    /\ UNCHANGED <<tool_call, tool_request>>
    /\ UNCHANGED <<retryVars, respVars, authVars, clientVars, raceVars, serverVars>>

\* No tool call has been made.
ToolInit ==
    /\ tool_call = None
    /\ tool_pc = "idle"
    /\ tool_request = None
    /\ tool_out = None

\* One tool call: the handler up to its client call; `async with
\* GhostClient() as client`, the client call with its HTTP calls and sleeps,
\* the cancellation of the task while it awaits, and the end of the block;
\* the end of the handler.
ToolNext ==
    \/ \E c \in ToolCalls : ToolCall(c)
    \/ tool_pc = "client" /\ EnterScope
    \/ ToolMakeRequest
    \/ \E t \in TransportOutcomes : tool_pc = "client" /\ SendRequest(t)
    \/ tool_pc = "client" /\ ClientWake
    \/ tool_pc = "client" /\ Cancel
    \/ tool_pc = "client" /\ ExitScope
    \/ ToolReturn

---------------------------------------------------------------------------
\* Initial states and next-state relations

RetryInit ==
    /\ pc = "idle"
    /\ config = DefaultRetryConfig
    /\ request_id = None
    /\ attempt = 0
    /\ last_exception = None
    /\ delay = 0
    /\ invocations = 0
    /\ suspensions = 0
    /\ op_outcome = None
    /\ decision = None
    /\ retry_result = None
    /\ retry_raised = None
    /\ all_retryable = TRUE

\* The operations of one with_retry call.  The configuration it is given:
\* max_retries is an unvalidated int, so it may be negative; max_delay is the
\* default or a cap the third delay of the default schedule exceeds;
\* exponential_base makes a constant schedule or is the default.  The
\* operation returns one of two values, or raises an error whose context is
\* absent, empty, an "HTTP <status>" context or one of the two fixed
\* contexts of the client.
RetryNext ==
    \/ \E cfg \in {[DefaultRetryConfig EXCEPT !.max_retries = m, !.jitter = j,
                                              !.max_delay = md,
                                              !.exponential_base = b] :
                      m \in (0 - NegRetries)..MaxRetries, j \in BOOLEAN,
                      md \in {DEFAULT_MAX_DELAY_MS, 3000},
                      b \in {1, DEFAULT_EXPONENTIAL_BASE}},
          rid \in OptRequestIds :
          Call(cfg, rid)
    \/ \E v \in {"v1", "v2"} : OperationReturns(v)
    \/ \E kind \in ErrorKinds,
          context \in {None, Some(<<>>), Some(CTX_NON_JSON),
                       Some(CTX_INVALID_JSON)}
                      \cup {Some(FormatHTTP(s)) :
                               s \in {400, 404, 428, 429, 430, 499, 500, 503,
                                      599, 600}} :
          OperationRaises(kind, context)
    \/ Wake

RespInit ==
    /\ response = None
    /\ handled = None

RespNext ==
    \E resp \in Responses, rid \in {"req-1", "req-2"} : HandleResponse(resp, rid)

---------------------------------------------------------------------------
\* Specifications

ExtInitUnused == ToolInit /\ RaceInit /\ ServerInitUnused

Init == RetryInit /\ RespInit /\ AuthInit /\ ClientInitUnused /\ ExtInitUnused

\* The state after construction of a client that is given no Admin key.
InitNoKey ==
    RetryInit /\ RespInit /\ AuthInitNoKey /\ ClientInitUnused /\ ExtInitUnused

\* The state after construction of a client, with any of its keys and retry
\* configurations.
InitClient ==
    RetryInit /\ RespInit /\ AuthInitClient /\ ClientInit /\ ExtInitUnused

\* with_retry alone, on any operation; the provider is left alone, with no
\* key.
SpecRetry == InitNoKey /\ [][RetryNext]_vars

\* _handle_response alone, on any upstream response; the provider is left
\* alone, with no key.
SpecResp == InitNoKey /\ [][RespNext]_vars

\* One AdminAuth instance: calls, invalidations and the passage of time.
SpecAuth == Init /\ [][AuthNext]_vars

\* One GhostClient used through `async with`: one _make_request call, its
\* HTTP calls and sleeps, cancellation, and the exit of the block.
SpecClient == InitClient /\ [][ClientNext]_vars

\* The state after server.py is imported, with any configuration.
InitServer ==
    /\ RetryInit /\ RespInit /\ AuthInitNoKey /\ ClientInitUnused
    /\ ToolInit /\ RaceInit /\ ServerInit

\* The state after construction of a provider that several callers share.
InitRace ==
    /\ RetryInit /\ RespInit /\ AuthInitClient /\ ClientInitUnused
    /\ ToolInit /\ RaceInit /\ ServerInitUnused

\* Callers of one AdminAuth instance and an invalidation, interleaved at
\* every access of the two cache attributes.
SpecRace == InitRace /\ [][RaceNext]_vars

\* The state before a tool call.  The handler will construct its client
\* with GhostClient(): the configured URL, a Content key or none, max_retries
\* 0 or 1, and an Admin key that cannot mint or a usable one.
InitTool ==
    /\ RetryInit /\ RespInit /\ ToolInit /\ RaceInit /\ ServerInitUnused
    /\ now = 0
    /\ api_key \in {Some(<<"a", "b", ":", "z", "z">>), Some(<<"a", "b", ":", "c", "d">>)}
    /\ cached_token = None
    /\ token_expires_at = None
    /\ auth_out = None
    /\ mints = 0
    /\ invalidated = FALSE
    /\ base_url = [origin |-> ORIGIN, path |-> <<>>]
    /\ content_key \in ContentKeys
    /\ retry_config \in {[DefaultRetryConfig EXCEPT !.max_retries = m] : m \in {0, 1}}
    /\ scope = "outside"
    /\ pool_closed = FALSE
    /\ call = None
    /\ request_kwargs = None
    /\ http_calls = 0
    /\ sent = None
    /\ transport = None
    /\ all_timed_out = TRUE
    /\ client_out = None
    /\ scope_out = None
    /\ caller_params = None
    /\ all_status_retryable = TRUE

\* One tool call: the handler, its `async with GhostClient()` block and the
\* one client call in it.
SpecTool == InitTool /\ [][ToolNext]_vars

\* The start of the server: register_tools() and then mcp.run().
SpecServer == InitServer /\ [][ServerNext]_vars

Next ==
    \/ RetryNext \/ RespNext \/ AuthNext \/ ClientNext
    \/ RaceNext \/ ToolNext \/ ServerNext

Spec == Init /\ [][Next]_vars

---------------------------------------------------------------------------
\* Claims about with_retry and _should_retry (checked under SpecRetry)

Max(a, b) == IF a >= b THEN a ELSE b

\* The error of the last invocation of the operation, when it raised.
LastRaised == Get(Get(op_outcome).error)

OpRaised == IsSome(op_outcome) /\ ~Get(op_outcome).ok

OpReturned == IsSome(op_outcome) /\ Get(op_outcome).ok

Terminated == pc \in {"returned", "raised"}

\* C1 as stated: in every state of a call, the operation has been invoked at
\* most max_retries + 1 times, for every RetryConfig.
C1_AtMostMaxRetriesPlusOne ==
    pc # "idle" => invocations <= config.max_retries + 1

\* C1, amended: one call of with_retry invokes the operation at most
\* max(max_retries + 1, 0) times, whatever the operation does; for
\* max_retries <= -2 the bound max_retries + 1 is negative and the operation
\* is invoked zero times.
C1_AtMostAttempts ==
    pc # "idle" => invocations <= Max(config.max_retries + 1, 0)

\* C1 witness: the default configuration used up: four invocations.
C1_Witness ==
    pc = "raised" /\ config.max_retries = 3 /\ invocations = 4

\* C2: when an invocation of the operation succeeds, with_retry returns that
\* invocation's value at once (the call is in "returned" with that value in
\* the very state the success is observed), a returned call never invokes the
\* operation again, and a success on attempt 1 means exactly one invocation
\* whatever max_retries is.
C2_ReturnOnSuccess ==
    /\ [](OpReturned =>
            /\ pc = "returned"
            /\ retry_result = Get(op_outcome).value
            /\ invocations = attempt + 1
            /\ (attempt = 0 => invocations = 1))
    /\ [][pc = "returned" =>
            /\ pc' = "returned"
            /\ invocations' = invocations
            /\ retry_result' = retry_result]_vars

\* C2 witness: a success on the third attempt of a call allowed four.
C2_Witness ==
    /\ pc = "returned"
    /\ config.max_retries = 3
    /\ invocations = 3
    /\ retry_result = Some("v2")

\* C3: a terminated call with max_retries = n >= 0 whose every invocation
\* raised a retryable error has invoked the operation exactly n + 1 times and
\* raised the error object of the last invocation (same fields, same id).
C3_ExhaustionRaisesLastError ==
    (Terminated /\ all_retryable /\ config.max_retries >= 0) =>
        /\ pc = "raised"
        /\ invocations = config.max_retries + 1
        /\ OpRaised
        /\ retry_raised = Get(op_outcome).error
        /\ Get(retry_raised).id = invocations

\* C3 witness: the spec's case, max_retries = 3 and four retryable failures.
C3_Witness ==
    /\ pc = "raised"
    /\ all_retryable
    /\ config.max_retries = 3
    /\ invocations = 4
    /\ Get(retry_raised).kind = "NetworkError"

\* C4: whenever the last invocation raised an error the classifier rejects,
\* the call has ended by raising exactly that error, with no invocation and
\* no suspension after it: invocations = attempt + 1 and suspensions =
\* attempt, hence one invocation and no suspension on the first attempt.
C4_NonRetryableAborts ==
    (OpRaised /\ ~ShouldRetry(LastRaised)) =>
        /\ pc = "raised"
        /\ retry_raised = Some(LastRaised)
        /\ invocations = attempt + 1
        /\ suspensions = attempt

\* C4 witness: a non-retryable error on the first attempt while three
\* retries remain.
C4_Witness ==
    /\ pc = "raised"
    /\ config.max_retries = 3
    /\ attempt = 0
    /\ invocations = 1
    /\ OpRaised
    /\ LastRaised.kind = "ValidationError"

\* The reference table of C5: the HTTP status a context indicates, read as
\* "HTTP " followed by the decimal status.
IndicatesStatus(context, status) ==
    IsSome(context) /\ Contains(Get(context), FormatHTTP(status))

RetryTable(e) ==
    CASE e.kind = "NetworkError"        -> TRUE
      [] e.kind = "AuthenticationError" -> FALSE
      [] e.kind = "ValidationError"     -> FALSE
      [] e.kind = "GhostApiError"       ->
            \E status \in (500..599) \cup {429} : IndicatesStatus(e.context, status)
      [] OTHER                          -> TRUE

\* C5: the answer _should_retry gave for the captured error equals the
\* reference table: Network true; Authentication and Validation false;
\* GhostApiError true iff its context indicates a 5xx status or 429; every
\* other error type true.
C5_ClassifierTable ==
    IsSome(last_exception) =>
        decision = Some(RetryTable(Get(last_exception)))

\* C5 witness: a GhostApiError with context "HTTP 429" was classified
\* retryable.
C5_Witness ==
    /\ IsSome(last_exception)
    /\ Get(last_exception).kind = "GhostApiError"
    /\ Get(last_exception).context = Some(S_HTTP_429)
    /\ decision = Some(TRUE)

\* The delay of the claim before any jitter:
\* min(base_delay * exponential_base^attempt_index, max_delay).
UnjitteredDelay(cfg, att) ==
    Min(cfg.base_delay * Pow(cfg.exponential_base, att), cfg.max_delay)

\* C16: for configurations with positive delays and exponential_base >= 1,
\* the suspension before retry number k (attempt index k - 1, the k-th
\* suspension of the call) lasts min(base_delay * exponential_base^(k-1),
\* max_delay), times a factor in [0.5, 1.0] when jitter is enabled; it is at
\* most max_delay and at least half the un-jittered delay, and the
\* un-jittered delay is not below that of the attempt before.
C16_DelayFormulaAndBounds ==
    pc = "sleep" =>
        LET d == UnjitteredDelay(config, attempt)
        IN  /\ suspensions = attempt + 1
            /\ IF config.jitter
               THEN \E f \in 500..1000 : 1000 * delay = d * f
               ELSE delay = d
            /\ delay <= config.max_delay
            /\ 2 * delay >= d
            /\ attempt >= 1 => d >= UnjitteredDelay(config, attempt - 1)

\* C16 witness: a jittered suspension at exactly half of a delay that was
\* capped at max_delay.
C16_Witness ==
    /\ pc = "sleep"
    /\ config.jitter
    /\ config.base_delay * Pow(config.exponential_base, attempt) > config.max_delay
    /\ 2 * delay = config.max_delay

\* C17 as stated: a call that terminates after m invocations has performed
\* exactly m - 1 suspensions.
C17_ExactlyOneLessThanInvocations ==
    Terminated => suspensions = invocations - 1

\* C17, amended: with_retry suspends only between two invocations.  There
\* are never more suspensions than invocations; when the operation is about
\* to be invoked, and while the call is suspended, every invocation so far
\* was followed by one suspension (so none precedes the first invocation); a
\* call that terminates after m >= 1 invocations has performed exactly m - 1
\* suspensions, and one that terminates without any invocation has performed
\* none.
C17_SuspendsOnlyBetweenInvocations ==
    /\ suspensions <= invocations
    /\ pc \in {"operation", "sleep"} => suspensions = invocations
    /\ pc = "sleep" => ~IsFinalAttempt(attempt, config)
    /\ Terminated => suspensions = Max(invocations - 1, 0)

\* C17 witness: the final permitted attempt of a call with three retries
\* failed: four invocations and three suspensions.
C17_Witness ==
    /\ pc = "raised"
    /\ attempt = config.max_retries
    /\ invocations = 4
    /\ suspensions = 3

\* C18: a terminated call of with_retry has either returned the value of a
\* successful invocation (the last one), or raised the error captured from
\* the last invocation, or, when the operation was never invoked, raised a
\* NetworkError with the message "Retry logic failed unexpectedly"; it never
\* ends without a value and without an error.
C18_ResultOrError ==
    /\ pc = "returned" =>
          /\ OpReturned
          /\ IsSome(retry_result)
          /\ retry_result = Get(op_outcome).value
          /\ IsNone(retry_raised)
    /\ pc = "raised" =>
          /\ IsSome(retry_raised)
          /\ IsNone(retry_result)
          /\ IF invocations = 0
             THEN /\ Get(retry_raised).kind = "NetworkError"
                  /\ Get(retry_raised).message = MSG_RETRY_UNEXPECTED
                  /\ Get(retry_raised).request_id = request_id
             ELSE /\ OpRaised
                  /\ retry_raised = Get(op_outcome).error

\* C18 witness: a call with max_retries < 0 ended without invoking the
\* operation, by raising the NetworkError of the defensive path.
C18_Witness ==
    /\ pc = "raised"
    /\ config.max_retries < 0
    /\ invocations = 0
    /\ IsSome(retry_raised)
    /\ Get(retry_raised).kind = "NetworkError"

---------------------------------------------------------------------------
\* Claims about _handle_response (checked under SpecResp)

HandledError == Get(Get(handled).error)

ErrorResponse == IsSome(response) /\ Get(response).status_code >= 400

\* C6 as stated: for every response with status >= 400, whatever its body,
\* _handle_response raises a GhostApiError whose context contains
\* "HTTP <status>".
C6_ContextHasStatus ==
    ErrorResponse =>
        /\ ~Get(handled).ok
        /\ HandledError.kind = "GhostApiError"
        /\ IsSome(HandledError.context)
        /\ Contains(Get(HandledError.context),
                    FormatHTTP(Get(response).status_code))

\* C7 as stated: a response with status >= 400 whose body is not JSON raises
\* a GhostApiError whose message contains the status code and whose context
\* contains the raw response text.
C7_FallbackMessageAndContext ==
    (ErrorResponse /\ Get(response).body.kind = "non_json") =>
        /\ ~Get(handled).ok
        /\ HandledError.kind = "GhostApiError"
        /\ Contains(HandledError.message, IntToStr(Get(response).status_code))
        /\ IsSome(HandledError.context)
        /\ Contains(Get(HandledError.context), Get(response).body.text)

\* C20 as stated: a response with status >= 400 whose body is an object with
\* an "errors" array of at least one {message, code, ...} entry raises a
\* GhostApiError with the message and the code of the first entry.
C20_FirstEntryMessageAndCode ==
    (ErrorResponse /\ Get(response).body.kind = "error_list"
                   /\ Len(Get(response).body.errors) >= 1) =>
        /\ ~Get(handled).ok
        /\ HandledError.kind = "GhostApiError"
        /\ HandledError.message = Get(response).body.errors[1].message
        /\ HandledError.code = Get(response).body.errors[1].code

---------------------------------------------------------------------------
\* Claims about AdminAuth (checked under SpecAuth)

AuthOk == IsSome(auth_out) /\ Get(auth_out).ok

HandedToken == Get(Get(auth_out).token)

\* C8 as stated: every token handed out, minted or cached, has at least 30
\* seconds left before its own exp claim at the instant of the hand-out.
C8_MarginAgainstExp ==
    AuthOk =>
        Seconds(HandedToken.exp) - Get(auth_out).at >= Seconds(SAFETY_MARGIN_S)

\* C9: with a token and expiry in the cache, a call at now < expires_at - 30s
\* succeeds with the cached token, mints nothing and leaves the cache as it
\* is; a call at now >= expires_at - 30s mints a token (issued between the
\* call and its return), hands it out, and stores it with the expiry set to
\* the instant of the store plus 5 minutes.  After a call that minted, the
\* cache holds the token that call handed out.
C9_CacheHitOrRemint ==
    /\ []((AuthOk /\ Get(auth_out).minted) =>
            cached_token = Get(auth_out).token)
    /\ [][(IsSome(auth_out') /\ IsSome(cached_token) /\ IsSome(token_expires_at)) =>
            IF now < Get(token_expires_at) - Seconds(SAFETY_MARGIN_S)
            THEN /\ Get(auth_out').ok
                 /\ ~Get(auth_out').minted
                 /\ Get(auth_out').token = cached_token
                 /\ mints' = mints
                 /\ cached_token' = cached_token
                 /\ token_expires_at' = token_expires_at
            ELSE /\ Get(auth_out').ok
                 /\ Get(auth_out').minted
                 /\ mints' = mints + 1
                 /\ Get(auth_out').token = cached_token'
                 /\ cached_token' # cached_token
                 /\ Get(cached_token').iat \in UnixTime(now)..UnixTime(now')
                 /\ token_expires_at' =
                       Some(now' + Seconds(60 * CACHE_LIFETIME_MIN))]_vars

\* C9 witness: a call four minutes or more after the mint answered from the
\* cache.
C9_Witness ==
    /\ AuthOk
    /\ ~Get(auth_out).minted
    /\ Get(auth_out).at - Seconds(HandedToken.iat) >= Seconds(240)

\* C10: after invalidate_cache the cached token and the expiry are both
\* absent, whatever they were; the next call never answers from the cache:
\* with a key that can mint it succeeds with a token minted by that very call
\* (issued between the call and its return), otherwise it fails.
C10_InvalidateForcesMint ==
    /\ [](invalidated => (IsNone(cached_token) /\ IsNone(token_expires_at)))
    /\ [][(invalidated /\ IsSome(auth_out')) =>
            /\ Get(auth_out').ok = (~KeyAbsent(api_key) /\ CanMint(Get(api_key)))
            /\ Get(auth_out').ok =>
                 /\ Get(auth_out').minted
                 /\ mints' = mints + 1
                 /\ Get(Get(auth_out').token).iat \in UnixTime(now)..UnixTime(now')
                 /\ cached_token' = Get(auth_out').token]_vars

\* C10 witness: a second mint while the first token would still pass the
\* cache test, which only an invalidation brings about.
C10_Witness ==
    /\ AuthOk
    /\ Get(auth_out).minted
    /\ mints = 2
    /\ Get(auth_out).at < Seconds(240)

\* The key pair get_auth_headers cannot mint from: absent, without
\* separator, or with a secret that does not decode from hex.
KeyUnusable ==
    \/ IsNone(api_key)
    \/ ~HasSeparator(Get(api_key))
    \/ ~IsHex(KeySecret(Get(api_key)))

\* C11: is_configured() is true iff a key pair is present and contains ":";
\* a call of get_auth_headers either succeeds with a token for the
\* Authorization header, or fails with an AuthenticationError and nothing
\* else; it fails when no key pair is configured, when the key has no
\* separator, and when the secret does not decode from hex.
C11_ConfiguredAndAuthErrors ==
    /\ IsConfigured(api_key) = (IsSome(api_key) /\ HasSeparator(Get(api_key)))
    /\ IsSome(auth_out) =>
          /\ \/ /\ Get(auth_out).ok
                /\ IsSome(Get(auth_out).token)
                /\ IsNone(Get(auth_out).error)
             \/ /\ ~Get(auth_out).ok
                /\ IsNone(Get(auth_out).token)
                /\ IsSome(Get(auth_out).error)
                /\ Get(Get(auth_out).error).kind = "AuthenticationError"
          /\ KeyUnusable => ~Get(auth_out).ok

\* C11 witness: a key pair that is_configured() accepts, whose secret is not
\* hex: the call failed with the AuthenticationError of the mint.
C11_Witness ==
    /\ IsSome(auth_out)
    /\ IsConfigured(api_key)
    /\ ~IsHex(KeySecret(Get(api_key)))
    /\ ~Get(auth_out).ok
    /\ Get(Get(auth_out).error).message = MSG_GENERATE_FAILED

---------------------------------------------------------------------------
\* Claims about GhostClient (checked under SpecClient)

ClientRaised == IsSome(client_out) /\ ~Get(client_out).ok

ClientError == Get(Get(client_out).error)

\* The call is on a surface whose credentials cannot be used: Content without
\* a Content key, Admin without a key pair that can mint.
CredentialsUnusable ==
    /\ IsSome(call)
    /\ \/ (Get(call).api_type = API_CONTENT /\ IsNone(content_key))
       \/ (Get(call).api_type = API_ADMIN /\ KeyUnusable)

\* C12: a _make_request call on the Content surface with no Content key, or
\* on the Admin surface with no usable key pair, has failed with an
\* AuthenticationError without entering with_retry: the operation was never
\* invoked, no HTTP call was issued and no suspension happened, and this
\* stays so until and after the exit of the block.
C12_AuthFailsBeforeRetry ==
    CredentialsUnusable =>
        /\ ClientRaised
        /\ ClientError.kind = "AuthenticationError"
        /\ pc = "idle"
        /\ invocations = 0
        /\ http_calls = 0
        /\ IsNone(sent)
        /\ suspensions = 0

\* C12 witness: an Admin call with a key pair is_configured() accepts but
\* whose secret is not hex failed, and the block was left.
C12_Witness ==
    /\ IsSome(call)
    /\ Get(call).api_type = API_ADMIN
    /\ IsConfigured(api_key)
    /\ KeyUnusable
    /\ ClientRaised
    /\ scope = "exited"

\* The URL of the claim: <base_url>/ghost/api/<surface>/<endpoint>.
ClaimedUrl ==
    [origin |-> base_url.origin,
     path |-> base_url.path \o <<SEG_GHOST, SEG_API, Get(call).api_type>>
                 \o Get(call).endpoint]

\* C13 as stated: every HTTP request issued for the Content surface targets
\* <base_url>/ghost/api/content/<endpoint>, carries key=<content key> in its
\* query parameters and has no Authorization header; every request issued
\* for the Admin surface targets <base_url>/ghost/api/admin/<endpoint>,
\* carries "Ghost <token>" with the signed token as Authorization header,
\* and its query parameters are the caller's.
C13_RequestTargetAndCredentials ==
    IsSome(sent) =>
        /\ Get(call).api_type = API_CONTENT =>
              /\ Get(sent).url = ClaimedUrl
              /\ IsSome(Get(sent).params)
              /\ "key" \in DOMAIN Get(Get(sent).params)
              /\ Get(Get(sent).params).key = Get(content_key)
              /\ "Authorization" \notin DOMAIN Get(sent).headers
        /\ Get(call).api_type = API_ADMIN =>
              /\ Get(sent).url = ClaimedUrl
              /\ "Authorization" \in DOMAIN Get(sent).headers
              /\ Get(sent).headers.Authorization = <<"Ghost", Get(cached_token)>>
              /\ Get(sent).params = Get(call).params

\* The classes of the taxonomy of types/errors.py.
TaxonomyKinds == ErrorKinds \ {"Exception"}

\* C14 as stated: every failure that ends _make_request, other than a
\* cancellation, is an error of the taxonomy; a timeout, a connection error
\* and any other transport error of the final HTTP call reach the caller as
\* NetworkError.
C14_TypedErrorsOnly ==
    (ClientRaised /\ pc # "cancelled") =>
        /\ ClientError.kind \in TaxonomyKinds
        /\ (IsSome(transport) /\ Get(transport).kind # "response") =>
              ClientError.kind = "NetworkError"

\* C15: once the async with block is left, the connection pool is closed and
\* what leaves the block is what the body produced: its value, or the error
\* it raised (an authentication failure, an error that ended the retries, a
\* cancellation), which the exit does not suppress.
C15_ScopeClosesPool ==
    scope = "exited" =>
        /\ pool_closed
        /\ IsSome(scope_out)
        /\ scope_out = client_out

\* C15 witness: the block was left by the error that exhausted the retries
\* of its request.
C15_Witness ==
    /\ scope = "exited"
    /\ pool_closed
    /\ pc = "raised"
    /\ retry_config.max_retries >= 1
    /\ http_calls = retry_config.max_retries + 1
    /\ ~Get(scope_out).ok

\* C19 as stated: if every attempt times out, _make_request issues exactly
\* max_retries + 1 HTTP calls and then raises the Network error of the last
\* attempt.
C19_AlwaysMaxRetriesPlusOneCalls ==
    (Terminated /\ all_timed_out) =>
        /\ http_calls = retry_config.max_retries + 1
        /\ OpRaised
        /\ client_out = Some(Raised(LastRaised))
        /\ LastRaised.kind = "NetworkError"

\* C19, amended: a timeout of an HTTP call is reported as a NetworkError
\* with the context "Timeout after <timeout>s" and classified retryable; if
\* every attempt times out and max_retries >= 0, _make_request issues
\* exactly max_retries + 1 HTTP calls and then raises the NetworkError of
\* the last attempt; with max_retries < 0 it issues no HTTP call and raises
\* the NetworkError "Retry logic failed unexpectedly".
C19_TimeoutsRetriedToExhaustion ==
    /\ (IsSome(transport) /\ Get(transport).kind = "TimeoutException"
           /\ pc # "cancelled") =>
          /\ OpRaised
          /\ LastRaised.kind = "NetworkError"
          /\ LastRaised.context = Some(TimeoutContext)
          /\ decision = Some(TRUE)
    /\ (Terminated /\ all_timed_out /\ retry_config.max_retries >= 0) =>
          /\ pc = "raised"
          /\ http_calls = retry_config.max_retries + 1
          /\ OpRaised
          /\ client_out = Some(Raised(LastRaised))
          /\ LastRaised.kind = "NetworkError"
          /\ LastRaised.id = http_calls
    /\ (Terminated /\ retry_config.max_retries < 0) =>
          /\ http_calls = 0
          /\ ClientRaised
          /\ ClientError.kind = "NetworkError"
          /\ ClientError.message = MSG_RETRY_UNEXPECTED

\* C19 witness: a client with max_retries = 2 whose three HTTP calls all
\* timed out.
C19_Witness ==
    /\ pc = "raised"
    /\ all_timed_out
    /\ retry_config.max_retries = 2
    /\ http_calls = 3
    /\ ClientRaised

---------------------------------------------------------------------------
\* Claims about the signed-token cache under failure

\* A get_auth_headers call has just ended by raising AuthenticationError.
AuthRaised == IsSome(auth_out) /\ ~Get(auth_out).ok

\* C28: a failed token mint leaves the signed-token cache unchanged: a step
\* in which _get_jwt_token raises AuthenticationError (no key, no
\* separator, or a minting failure) keeps _cached_token and
\* _token_expires_at at the values they had before the call.
C28_FailedMintKeepsCache ==
    [][(IsSome(auth_out') /\ ~Get(auth_out').ok) =>
          /\ cached_token' = cached_token
          /\ token_expires_at' = token_expires_at
          /\ mints' = mints]_vars

\* C28 witness: a call on a key whose secret does not decode has raised the
\* minting failure, and the cache holds what it held before (nothing).
C28_Witness ==
    /\ AuthRaised
    /\ Get(Get(auth_out).error).message = MSG_GENERATE_FAILED
    /\ IsConfigured(api_key)
    /\ cached_token = None
    /\ token_expires_at = None

\* The call names a surface that is neither "content" nor "admin".
OtherSurface ==
    IsSome(call) /\ Get(call).api_type \notin {API_CONTENT, API_ADMIN}

\* C30: a _make_request call with an api_type that is neither "content" nor
\* "admin" raises nothing at the selection of credentials and enters
\* with_retry; the request it prepares, and every HTTP call it issues, has
\* only the default headers (no Authorization) and the caller's query
\* parameters (no key); failures that are retryable are retried up to
\* max_retries + 1 HTTP calls.
C30_UnknownSurfaceUnauthenticated ==
    OtherSurface =>
        /\ pc # "idle"
        /\ IsSome(request_kwargs)
        /\ Get(request_kwargs).headers = DefaultHeaders
        /\ "Authorization" \notin DOMAIN Get(request_kwargs).headers
        /\ Get(request_kwargs).params = Get(call).params
        /\ IsSome(Get(call).params) =>
              "key" \notin DOMAIN Get(Get(request_kwargs).params)
        /\ IsSome(sent) => sent = request_kwargs
        /\ (Terminated /\ retry_config.max_retries >= 0) => http_calls >= 1
        /\ (pc = "raised" /\ all_retryable /\ retry_config.max_retries >= 0) =>
              http_calls = retry_config.max_retries + 1

\* C30 witness: a call on the surface "members" with a params dict, on a
\* client that has both keys, issued three HTTP calls and raised.
C30_Witness ==
    /\ OtherSurface
    /\ IsSome(Get(call).params)
    /\ IsSome(content_key)
    /\ IsConfigured(api_key)
    /\ CanMint(Get(api_key))
    /\ retry_config.max_retries = 2
    /\ http_calls = 3
    /\ pc = "raised"
    /\ ClientRaised

\* The _make_request call has prepared its request and entered with_retry.
InRetryLoop == IsSome(call) /\ IsSome(request_kwargs)

\* C27, state part: the credential provider was consulted once, before the
\* retry loop: on the Admin surface one token was minted, at the instant
\* of the call, it is the token of the Authorization header of the prepared
\* request, and every HTTP call issued was sent with the prepared request.
C27_OneResolution ==
    InRetryLoop =>
        /\ IsSome(sent) => sent = request_kwargs
        /\ Get(call).api_type = API_ADMIN =>
              /\ mints = 1
              /\ IsSome(auth_out)
              /\ Get(auth_out).ok
              /\ Get(auth_out).minted
              /\ Get(auth_out).at = 0
              /\ Get(request_kwargs).headers.Authorization =
                    <<"Ghost", Get(Get(auth_out).token)>>
        /\ Get(call).api_type # API_ADMIN => (mints = 0 /\ IsNone(auth_out))

\* C27: _make_request resolves auth material once per call, before the retry
\* loop: in every step after with_retry was entered (an HTTP call with any
\* outcome, a timeout that consumes the whole per-call timeout, the end of
\* a backoff sleep, a cancellation, the exit of the block) the prepared
\* URL, headers and query parameters, the cached token and its expiry, the
\* number of mints and the provider's last hand-out stay as they are, and
\* an HTTP call issued in the step is sent with the prepared request,
\* identical to the one before it.
C27_AuthResolvedOnce ==
    [][InRetryLoop =>
          /\ request_kwargs' = request_kwargs
          /\ cached_token' = cached_token
          /\ token_expires_at' = token_expires_at
          /\ mints' = mints
          /\ auth_out' = auth_out
          /\ http_calls' # http_calls =>
                /\ sent' = request_kwargs
                /\ IsSome(sent) => sent' = sent
          /\ C27_OneResolution']_vars

\* C27 witness: an Admin call whose three HTTP calls were issued while two
\* per-call timeouts and two backoff sleeps elapsed, with one token minted.
C27_Witness ==
    /\ InRetryLoop
    /\ Get(call).api_type = API_ADMIN
    /\ http_calls = 3
    /\ suspensions = 2
    /\ now >= 2 * Seconds(DEFAULT_TIMEOUT_S) + 2
    /\ mints = 1
    /\ "Authorization" \in DOMAIN Get(sent).headers

\* The values of ErrorCategory (types/errors.py).
ErrorCategories ==
    {"NETWORK", "AUTHENTICATION", "GHOST_API", "MCP_PROTOCOL", "FILE_UPLOAD",
     "VALIDATION"}

\* The error objects the call holds: the error of the last attempt, the
\* error the except clause captured, the error the provider raised and the
\* error that ended the call.
LiveErrors ==
    {Get(o.error) : o \in {Get(x) : x \in {y \in {op_outcome, client_out, auth_out} :
                                            IsSome(y) /\ ~Get(y).ok}}}
      \cup {Get(x) : x \in {y \in {last_exception, retry_raised} : IsSome(y)}}

\* The typed errors among them: the instances of GhostMCPError.
LiveTypedErrors == {e \in LiveErrors : e.kind \in TaxonomyKinds}

\* C25, state part: the correlation id of the call is the supplied one, or
\* the generated one when none is supplied, and every typed error the call
\* holds carries it, together with a category of ErrorCategory.
C25_Correlated ==
    IsSome(call) =>
        /\ Get(call).request_id =
              IF IsNone(Get(call).rid_arg) THEN GENERATED_REQUEST_ID
              ELSE Get(Get(call).rid_arg)
        /\ \A e \in LiveTypedErrors :
              /\ e.request_id = Some(Get(call).request_id)
              /\ IsSome(e.category)
              /\ Get(e.category) \in ErrorCategories

\* C25: every typed error raised by one _make_request call (the
\* AuthenticationError of an unconfigured surface or of a failed mint, the
\* Network and UpstreamAPI errors of every attempt, the error that ends the
\* call) carries the correlation id of that call, which is the supplied id
\* or the id generated at the start and does not change between attempts,
\* and a category; the error constructed by an attempt has an id that no
\* error constructed before it has.
C25_ErrorsCarryCorrelationId ==
    [][/\ C25_Correlated'
       /\ IsSome(call) => call' = call
       /\ (invocations' # invocations /\ ~Get(op_outcome').ok) =>
             /\ \A e \in LiveErrors : Get(Get(op_outcome').error).id # e.id
             /\ IsSome(last_exception) =>
                   Get(Get(op_outcome').error).id > Get(last_exception).id]_vars

\* C25 witness: a call without a request_id argument whose three attempts
\* all raised typed errors; the error that ended it carries the generated
\* id and is the third error constructed.
C25_Witness ==
    /\ IsSome(call)
    /\ IsNone(Get(call).rid_arg)
    /\ http_calls = 3
    /\ ClientRaised
    /\ ClientError.kind \in {"NetworkError", "GhostApiError"}
    /\ ClientError.request_id = Some(GENERATED_REQUEST_ID)
    /\ ClientError.id = 3

\* The last HTTP call was answered with a 4xx status other than 429.
AnsweredOther4xx ==
    /\ IsSome(transport)
    /\ Get(transport).kind = "response"
    /\ Get(Get(transport).response).status_code \in 400..499
    /\ Get(Get(transport).response).status_code # 429

\* C24 as stated: when the upstream answers every attempt of _make_request
\* with status 5xx or 429, whatever the body (a structured error body,
\* another JSON body, a non-JSON body), the call issues exactly
\* max_retries + 1 HTTP calls and then raises; when it answers with any
\* other 4xx status, the call raises after exactly one HTTP call.
C24_RetryableStatusesRetriedWhateverBody ==
    /\ (Terminated /\ http_calls >= 1 /\ all_status_retryable) =>
          /\ pc = "raised"
          /\ http_calls = retry_config.max_retries + 1
    /\ (http_calls >= 1 /\ all_status_retryable /\ pc # "cancelled") =>
          http_calls <= retry_config.max_retries + 1
    /\ (http_calls = 1 /\ AnsweredOther4xx) => pc = "raised"

\* The call is on the Content surface and was given a params mapping.
ContentCallWithParams ==
    /\ IsSome(call)
    /\ Get(call).api_type = API_CONTENT
    /\ IsSome(Get(call).params)

\* C29 as stated: after a _make_request call on the Content surface the
\* params mapping supplied by the caller contains "key", also when the call
\* fails; on the Admin surface the caller's mapping is unchanged.
C29_KeyAddedAlsoOnFailure ==
    /\ ContentCallWithParams =>
          /\ IsSome(caller_params)
          /\ "key" \in DOMAIN Get(caller_params)
    /\ (IsSome(call) /\ Get(call).api_type = API_ADMIN) =>
          caller_params = Get(call).params

\* C29, amended: on the Content surface with a configured Content key,
\* _make_request adds the key to the params mapping object supplied by the
\* caller, in place: from the call on, also when the HTTP calls fail, the
\* caller's mapping is its old content updated with "key", and it is the
\* mapping every HTTP call is sent with; when no Content key is configured
\* the call raises AuthenticationError before touching the mapping, which
\* stays unchanged; a call without params leaves nothing of the caller's
\* changed; on the Admin surface the caller's mapping is unchanged.
C29_KeyAddedInPlaceWhenConfigured ==
    IsSome(call) =>
        /\ (ContentCallWithParams /\ ContentIsConfigured(content_key)) =>
              /\ caller_params =
                    Some(Update(Get(Get(call).params), [key |-> Get(content_key)]))
              /\ "key" \in DOMAIN Get(caller_params)
              /\ "key" \notin DOMAIN Get(Get(call).params)
              /\ Get(request_kwargs).params = caller_params
        /\ (ContentCallWithParams /\ ~ContentIsConfigured(content_key)) =>
              /\ caller_params = Get(call).params
              /\ ClientRaised
              /\ ClientError.kind = "AuthenticationError"
        /\ IsNone(Get(call).params) => IsNone(caller_params)
        /\ Get(call).api_type # API_CONTENT => caller_params = Get(call).params

\* C29 witness: a Content call with a params mapping, on a client with a
\* Content key, failed after its HTTP calls, and the caller's mapping holds
\* the key.
C29_Witness ==
    /\ ContentCallWithParams
    /\ ContentIsConfigured(content_key)
    /\ http_calls >= 1
    /\ ClientRaised
    /\ Get(caller_params).key = Get(content_key)
    /\ Get(caller_params).limit = "5"

---------------------------------------------------------------------------
\* Claims about the start of the server

\* C26: once register_tools() has run, the Admin tools are registered
\* exactly when the mode is "readwrite" or "auto" and an Admin key is
\* configured, the Content tools exactly when a Content key is configured,
\* and in "readonly" mode no Admin tool is ever registered; a group is
\* registered whole or not at all.
C26_ToolsFollowModeAndKeys ==
    /\ server_pc = "loaded" => registered = ServerTools
    /\ server_pc # "loaded" =>
          /\ IF mode \in {"readwrite", "auto"} /\ ~KeyAbsent(admin_api_key)
             THEN AdminTools \subseteq registered
             ELSE AdminTools \cap registered = {}
          /\ IF ContentIsConfigured(content_api_key)
             THEN ContentTools \subseteq registered
             ELSE ContentTools \cap registered = {}
    /\ mode = "readonly" => AdminTools \cap registered = {}

\* A read-only server that has both keys is running with the Content tools.
C26_Witness ==
    /\ server_pc = "running"
    /\ mode = "readonly"
    /\ ~KeyAbsent(admin_api_key)
    /\ ContentIsConfigured(content_api_key)
    /\ ContentTools \subseteq registered
    /\ AdminTools \cap registered = {}

---------------------------------------------------------------------------
\* Claims about callers that share one AdminAuth (checked under SpecRace)

\* The token string is still accepted at tick t: its exp claim lies ahead.
Unexpired(token, t) == t < Seconds(token.exp)

---------------------------------------------------------------------------
\* Claims about the tool handlers (checked under SpecTool)

\* The handler has ended with its client call made and cancelled by nobody.
ToolClientCallEnded ==
    /\ tool_pc \in {"returned", "escaped"}
    /\ IsSome(tool_request)
    /\ IsSome(scope_out)
    /\ (Get(scope_out).ok \/ IsException(Get(Get(scope_out).error)))

\* C22: whatever the client call of a handler ends with (a payload, a typed
\* error after the retries, or any other exception) the handler returns a
\* str of JSON text: the payload itself after a success, an object with an
\* "error" key after a failure; no exception leaves the handler.  Only the
\* cancellation of the task (asyncio.CancelledError, no Exception) passes
\* through.
C22_HandlerReturnsJson ==
    /\ tool_pc = "escaped" =>
          (IsSome(scope_out) /\ ~Get(scope_out).ok
             /\ ~IsException(Get(Get(scope_out).error)))
    /\ tool_pc = "returned" =>
          (IsSome(tool_out) /\ Get(tool_out).type = "str")
    /\ ToolClientCallEnded =>
          /\ tool_pc = "returned"
          /\ IF Get(scope_out).ok
             THEN Loads(Get(tool_out)) = Get(Get(scope_out).value)
             ELSE "error" \in DOMAIN Loads(Get(tool_out))

\* get_post_by_id has returned an error object for an exception outside the
\* error taxonomy that its client call raised after an HTTP call.
C22_Witness ==
    /\ ToolClientCallEnded
    /\ Get(tool_call).tool = "get_post_by_id"
    /\ http_calls >= 1
    /\ ~Get(scope_out).ok
    /\ Get(Get(scope_out).error).kind = "Exception"
    /\ "error" \in DOMAIN Loads(Get(tool_out))

\* The post of the request body the handler hands to its client call.
RequestedPost == Get(Get(tool_request).json_data).posts[1]

\* The call asks for the status "scheduled" and gives no valid, non-empty
\* published_at.
ScheduledWithoutDate(c) ==
    /\ c.tool \in {"create_post", "update_post"}
    /\ IsSome(c.status)
    /\ Strip(Lower(Get(c.status))) = ST_SCHEDULED
    /\ \/ IsNone(c.published_at)
       \/ ~MatchesIso(Strip(Get(c.published_at)))

\* C23 as stated: a post that create_post or update_post has sent upstream
\* with the status "scheduled" carries a valid, non-empty published_at; a
\* call that asks for "scheduled" without such a date ends with an error
\* object that has "error" and "context", and no HTTP call is made for it.
C23_ScheduledNeedsDate ==
    /\ (IsSome(tool_request) /\ http_calls >= 1
          /\ Get(tool_call).tool \in {"create_post", "update_post"}
          /\ "status" \in DOMAIN RequestedPost
          /\ RequestedPost.status = ST_SCHEDULED) =>
             /\ "published_at" \in DOMAIN RequestedPost
             /\ IsSome(RequestedPost.published_at)
             /\ MatchesIso(Get(RequestedPost.published_at))
    /\ (IsSome(tool_call) /\ ScheduledWithoutDate(Get(tool_call))) =>
          /\ http_calls = 0
          /\ tool_pc \in {"returned", "escaped"} =>
                /\ tool_pc = "returned"
                /\ {"error", "context"} \subseteq DOMAIN Loads(Get(tool_out))

====
